---- MODULE Spec2Model ----
(***************************************************************************)
(* Model of the non-blocking D-Bus connection of wifi-captive-rs           *)
(* (dbus-rs-copy/src/nonblock.rs): the pending-reply table, the filter     *)
(* table, the cleanup queue, the dispatch loop (process_one) and the       *)
(* MethodReply future; of the method dispatcher of a server                *)
(* (dbus-rs-copy/src/crossroads/handlers.rs); of the IOResource future     *)
(* that drives the connection (src/network_interface/connection.rs); and   *)
(* of the NetworkManager client (src/nm/hotspot.rs,                        *)
(* src/nm/find_wifi_device.rs).                                            *)
(* One connection is modelled; its flavor (LocalConnection or              *)
(* SyncConnection) is chosen in Init.                                      *)
(***************************************************************************)
EXTENDS Integers, Sequences, FiniteSets, TLC

\* ------------------------------------------------------------------ bounds
\* Serials the channel hands out before every further send fails.
MaxSerial == 2
\* Filter registrations (start_receive calls) per connection.
MaxFilters == 1
\* Filter registrations where only the filter table is exercised (SpecFilters).
MaxSubs == 2
\* MethodReply futures created (method_call, and remove_match in stop_receive).
MaxMR == 1
\* method_call futures where only sending and polling are exercised (SpecSend).
MaxFutures == 2
\* Polls of one MethodReply.
MaxPolls == 2
\* Calls back into the connection made by one callback.
MaxReenter == 1
\* Handler bodies run by the method dispatcher.
MaxCalls == 2
\* Threads that send on one SyncConnection, and wakers the reactor hands it.
MaxSenders == 2
MaxWakers == 2
\* Messages one read_write puts into the inbound queue.
MaxInbound == 2
\* Connections with HOTSPOT_UUID the settings store can hold, active
\* connections NetworkManager reports, and devices it lists.
MaxStored == 2
MaxActive == 2
MaxDevices == 3

VARIABLES
    flavor,         \* "Local" (LocalConnection) or "Sync" (SyncConnection)
    pc,             \* position of the dispatch thread inside process_one
    held,           \* tables whose borrow / lock the dispatch thread holds
    reent,          \* calls the running callback has made into the connection
    nextSerial,     \* the serial the channel assigns to the next message sent
    replies,        \* pending-reply table: serial -> callback
    invoked,        \* serial -> number of invocations of the callback sent under it
    filters,        \* filter table: id -> (rule, callback)
    filter_nextid,  \* Local: filter_nextid; Sync: filters.0
    dropq,          \* Sync: the cleanup queue `drop`
    waker,          \* the waker slot holds a waker
    mr,             \* MethodReply cells: the shared MRInner and the handle's readfn
    nMR,            \* MethodReply futures created so far
    pollLog,        \* per MethodReply, what each poll returned, in order
    wakeLog,        \* per MethodReply, the wakers woken, in order
    running,        \* the callback process_one is executing
    cancelled,      \* serials whose entry cancel_reply has removed
    last,           \* the last API call that returned: its argument and its result
    paths,          \* Crossroads::paths: object path -> type ids of its interface instances
    hcount,         \* per registered method, the times its handler body has run
    hres,           \* the last method dispatch: its entry point, its call and its result
    waker_slot,     \* Sync: the waker in the Mutex<Option<Waker>> (0: None)
    waker_lock,     \* Sync: the thread that holds the waker mutex
    thread,         \* per thread, its position inside set_waker or send
    woken,          \* the wakers that have been woken
    owed,           \* the wakers a send that queued a message found installed on return
    nwakers,        \* wakers handed to set_waker so far
    inq,            \* the channel's queue of inbound messages
    passed,         \* the messages process_all has given to process_one, until the poll ends
    arrived,        \* the inbound queue as process_all found it, until the poll ends
    iopc,           \* position of IOResource::poll
    iolog,          \* the I/O steps of the last poll, in order, with their results
    ioret,          \* what the last poll returned
    store,          \* settings store: the connections with HOTSPOT_UUID
    nm,             \* the last hotspot operation: its calls and its result
    found,          \* the last find_wifi_device call: its input and its result
    lock_owner,     \* Sync: per mutex of the connection, the thread that holds it
    poisoned,       \* Sync: the mutexes a panicking thread has held
    lthread,        \* per thread, its calls in progress on the connection, innermost last
    ltab            \* what the tables hold: filters, callers' replies, remove_match replies

vars == <<flavor, pc, held, reent, nextSerial, replies, invoked, filters, filter_nextid,
          dropq, waker, mr, nMR, pollLog, wakeLog, running, cancelled, last,
          paths, hcount, hres,
         waker_slot, waker_lock, thread, woken, owed, nwakers, inq, passed, arrived, iopc,
         iolog, ioret, store, nm, found, lock_owner, poisoned, lthread, ltab>>

\* ------------------------------------------------------------------ values
Serials == 1..MaxSerial
MRs == 1..MaxFutures
Ifaces == {"Foo", "Bar"}
\* A match rule: the interface it asks for, "" for a rule without constraints.
Rules == {[interface |-> ""], [interface |-> "Foo"]}
\* An inbound message: its reply-serial (0: none), its interface and whether it
\* is a method call that expects a reply.
Messages == [rs : 0..MaxSerial, iface : Ifaces, call : BOOLEAN]
\* The last API call: its name, its argument (a serial, an id, a MethodReply)
\* and what it returned (0: None / Err).
\* v is the (rule, callback) pair stop_receive returned, NoFilter for None.
NoFilter == [rule |-> [interface |-> ""], f |-> 0]
NoCall == [op |-> "none", arg |-> 0, val |-> 0, v |-> NoFilter]
Returned(op, arg, val) == [op |-> op, arg |-> arg, val |-> val, v |-> NoFilter]
\* A MethodReply: MRInner (st, and the waker wk of Pending), the handle's readfn
\* (self.1 is Some), whether the handle exists, who holds it, and the serial
\* its call was sent under (0: the send failed).
UnusedCell == [st |-> "Unused", wk |-> 0, readfn |-> FALSE, alive |-> FALSE,
               owner |-> "none", serial |-> 0]
\* The running callback: the reply-serial of its message, and for a reply
\* callback the serial it was sent under (a method_call callback: its cell m
\* and the MRInner it replaced), for a filter callback the filter's id and entry.
NotRunning == [kind |-> "none", rs |-> 0, serial |-> 0, m |-> 0, oldst |-> "Neither",
               oldwk |-> 0, id |-> 0, v |-> NoFilter]

\* ------------------------------------------------------- external helpers
get_reply_serial(msg) == msg.rs
\* MatchRule::matches: every constraint the rule sets holds of the message.
matches(rule, msg) == rule.interface = "" \/ rule.interface = msg.iface
\* channel::default_reply: an error reply for a method call that expects one.
default_reply(msg) == msg.call

\* ------------------------------------------------------ the method registry
\* The four shapes of a method handler (SendMethods / LocalMethods).
Variants == {"MutPath", "MutIface", "AllRef", "MutCr"}
\* Crossroads::reg as set up: interface name -> its type id and its methods,
\* each with the shape of its handler. Foo has one method of every shape; no
\* instance of Qux is attached to any path.
Registry ==
    [Foo |-> [typeid |-> 1,
              methods |-> [byPath |-> "MutPath", byIface |-> "MutIface",
                           byRef |-> "AllRef", byCr |-> "MutCr"]],
     Qux |-> [typeid |-> 2, methods |-> [byIface |-> "MutIface"]]]
Handlers == UNION {{<<i, m>> : m \in DOMAIN Registry[i].methods} : i \in DOMAIN Registry}
\* A call: the interface, member and path of its MsgCtx.
HCalls == [iface : {"Foo", "Qux", "Nope"},
           member : {"byPath", "byIface", "byRef", "byCr", "nope"},
           path : {"/a", "/b"}]
\* The path tree as set up, and with the object a MutCr handler may add.
InitPaths == [p \in {"/a"} |-> {1}]
MorePaths == [p \in {"/a", "/b"} |-> {1}]
\* The last dispatch: its entry point, its call, its result, and the result
\* of the dispatch before it.
NoDispatch == [via |-> "none", call |-> [iface |-> "", member |-> "", path |-> ""],
               result |-> "none", prev |-> "none"]

\* The threads that use a SyncConnection: the reactor, which calls set_waker,
\* and the senders. r is the result of the sender's channel send (0: Err).
Reactor == 0
Senders == 1..MaxSenders
Threads == {Reactor} \cup Senders
NoThread == 0 - 1
Idle == [pc |-> "idle", r |-> 0]
\* The mutexes of SyncConnection that its calls take with lock().
Locks == {"replies", "filters", "drop"}
\* A thread's calls in progress on the connection: one frame per call,
\* innermost last; st is "run" until the thread stops for good.
Running == [st |-> "run", stack |-> << >>]
\* How many entries the tables hold (filters; replies: callbacks of callers and
\* of remove_match calls), and how many ids and serials have been handed out.
EmptyTables == [filters |-> 0, user |-> 0, mr |-> 0, ids |-> 0, serials |-> 0]

\* The messages read_write takes off the socket in one call: replies.
Inbound == {m \in Messages : m.iface = "Foo" /\ ~m.call /\ m.rs # 0}
Arrivals == UNION {[1..n -> Inbound] : n \in 0..MaxInbound}
\* Channel::watch: the directions the channel wants to be polled for.
Watches == [read : BOOLEAN, write : BOOLEAN]
\* One I/O step of a poll and whether it succeeded.
Step(op, ok) == [op |-> op, ok |-> ok]

\* A bus call made by a NetworkManager operation and how it ended.
R(call, res) == [call |-> call, res |-> res]
Res(ok) == IF ok THEN "Ok" ELSE "Err"
\* How the bus calls of one hotspot operation end, as far as they are made.
\* wait is what wait_for_active_connection_state returns, fail the active
\* connection whose deactivation fails (0: none).
ConnectionStates == {"Activated", "Activating", "Deactivated"}
StartOutcomes == [lookup : BOOLEAN, delete : BOOLEAN, args : BOOLEAN, add : BOOLEAN,
                  update : BOOLEAN, activate : BOOLEAN, state : BOOLEAN,
                  wait : ConnectionStates \cup {"Err"}, volatile : BOOLEAN]
DeactivateOutcomes == [lookup : BOOLEAN, delete : BOOLEAN, active : BOOLEAN,
                       fail : 0..MaxActive]
\* The active connections: what get_connection_settings returns for each.
Settings == {"AP", "Infrastructure", "None", "Err"}
ActiveConnections == UNION {[1..n -> Settings] : n \in 0..MaxActive}
NoOp == [op |-> "none", calls |-> << >>, result |-> "none"]
\* The devices NetworkManager lists, in the order of get_all_devices: whether
\* each is a WiFi device. Device i is on interface i; preference 0 is None.
Devices == UNION {[1..n -> BOOLEAN] : n \in 0..MaxDevices}
NoFind == [preferred |-> 0, devices |-> << >>, calls |-> << >>, res |-> "none", device |-> 0]

\* ---------------------------------------------------------- table helpers
Remove(tbl, k) == [x \in DOMAIN tbl \ {k} |-> tbl[x]]
Insert(tbl, k, v) == [x \in DOMAIN tbl \cup {k} |-> IF x = k THEN v ELSE tbl[x]]
SetMin(S) == CHOOSE x \in S : \A y \in S : x <= y

\* ------------------------------------------------------------- the channel
\* Channel::send: the serial given to the message, 0 when the send fails.
ChannelSend(ok) == IF ok THEN nextSerial ELSE 0
SerialAfter(r) == IF r # 0 THEN nextSerial + 1 ELSE nextSerial

\* --------------------------------------------------- pending-reply table
UserCb == [kind |-> "user", m |-> 0]
MrCb(m) == [kind |-> "mr", m |-> m]

\* Variants with a fault: cancel_reply that looks the entry up and leaves it;
\* send_with_reply that records the call whether or not it was sent.
cancel_reply_kept(tbl, id) == tbl
send_with_reply_always(tbl, r, f) == Insert(tbl, nextSerial, f)

\* send_with_reply: channel.send(..).map(|x| replies.insert(x, (msg, f)))
send_with_reply_table(tbl, r, f) == IF r # 0 THEN Insert(tbl, r, f) ELSE tbl

\* cancel_reply: replies.remove(&id).and_then(|(_, f)| Some(f)); the callback
\* is named by the serial it was sent under, 0 is None.
cancel_reply_result(tbl, id) == IF id \in DOMAIN tbl THEN id ELSE 0
cancel_reply_table(tbl, id) == Remove(tbl, id)
\* The callback cancel_reply hands back is returned, not called.
cancel_reply_invoked(inv, tbl, id) == inv

\* Variants with a fault: a reply given to the oldest pending call; an entry
\* looked up but left in the table.
MatchReplyOldest(tbl, serial) ==
    IF serial # 0 /\ DOMAIN tbl # {} THEN {SetMin(DOMAIN tbl)} ELSE {}
AfterMatchReplyKept(tbl, s) == tbl

\* process_one: replies.remove(&serial) on the reply-serial of the message:
\* the entries whose callback is invoked, and the table afterwards.
MatchReply(tbl, serial) == IF serial # 0 /\ serial \in DOMAIN tbl THEN {serial} ELSE {}
AfterMatchReply(tbl, s) == Remove(tbl, s)

\* ------------------------------------------------------------ MethodReply
IsReady(c) == c.st \in {"ReadyOk", "ReadyErr"}
\* Variants with a fault: a callback that stores the result and wakes nobody;
\* a MethodReply whose drop cancels its pending reply.
callback_wake_lost(log, oldst, oldwk) == log
drop_reply_cancels(tbl, m) == [s \in {x \in DOMAIN tbl : tbl[x] # [kind |-> "mr", m |-> m]} |-> tbl[s]]

\* The method_call callback: mem::replace(&mut *inner, MRInner::Ready(Ok(msg)))
callback_store(c) == [c EXCEPT !.st = "ReadyOk", !.wk = 0]
\* ... if let MRInner::Pending(waker) = old { waker.wake() }
callback_wake(log, oldst, oldwk) == IF oldst = "Pending" THEN Append(log, oldwk) ELSE log
\* Variant with a fault: a poll that reads the result and leaves it in the cell.
poll_cell_kept(c, w) == IF IsReady(c) THEN c ELSE [c EXCEPT !.st = "Pending", !.wk = w]
\* MethodReply::poll with the waker w: what it returns, and the cell afterwards.
poll_result(c) ==
    IF IsReady(c) THEN (IF c.readfn THEN c.st ELSE "Panic") ELSE "Pending"
poll_cell(c, w) ==
    IF IsReady(c) THEN [c EXCEPT !.st = "Neither", !.wk = 0, !.readfn = FALSE]
    ELSE [c EXCEPT !.st = "Pending", !.wk = w]
\* Dropping a MethodReply: the struct has no Drop, the table is not touched.
drop_reply_table(tbl, m) == tbl

\* ----------------------------------------------------- calls and callbacks
dispatch == <<pc, held, running>>
server == <<paths, hcount, hres>>
chan == <<nextSerial, waker>>
rtab == <<replies, invoked, cancelled>>
ftab == <<filters, filter_nextid, dropq>>
futs == <<mr, nMR, pollLog, wakeLog>>
wakers == <<waker_slot, waker_lock, thread, woken, owed, nwakers>>
io == <<iopc, iolog, ioret, arrived>>
inbound == <<inq, passed>>
nmgr == <<store, nm, found>>
locks == <<lock_owner, poisoned, lthread, ltab>>
apart == <<wakers, io, nmgr, locks>>

Crashed == pc \in {"panicked", "deadlocked"}
InCallback == pc \in {"reply_cb", "filter_cb"}
\* An API call is made by the owner between dispatches, or by a running callback.
CanCall == pc = "idle" \/ (InCallback /\ reent < MaxReenter)
\* The call returns l.
Call(l) ==
    /\ last' = l
    /\ reent' = IF pc = "idle" THEN reent ELSE reent + 1
\* Taking a RefCell borrow or a Mutex the same thread already holds:
\* borrow_mut panics; Mutex::lock deadlocks or panics.
RelockOutcomes == IF flavor = "Local" THEN {"panicked"} ELSE {"panicked", "deadlocked"}
Relocks(table) == table \in held
\* The call never returns; r is the serial of the message it had sent (0: none).
RelockCrash(r) ==
    /\ pc' \in RelockOutcomes
    /\ nextSerial' = SerialAfter(r)
    /\ UNCHANGED <<flavor, server, apart, inbound, held, running, reent, waker, rtab, dropq, futs, last>>

Init ==
    /\ flavor \in {"Local", "Sync"}
    /\ pc = "idle"
    /\ held = {}
    /\ reent = 0
    /\ nextSerial = 1
    /\ replies = << >>
    /\ invoked = [s \in Serials |-> 0]
    /\ cancelled = {}
    /\ filters = << >>
    /\ filter_nextid = 0
    /\ dropq = << >>
    /\ waker = FALSE
    /\ mr = [m \in MRs |-> UnusedCell]
    /\ nMR = 0
    /\ pollLog = [m \in MRs |-> << >>]
    /\ wakeLog = [m \in MRs |-> << >>]
    /\ running = NotRunning
    /\ last = NoCall
    /\ paths = InitPaths
    /\ hcount = [h \in Handlers |-> 0]
    /\ hres = NoDispatch
    /\ waker_slot = 0
    /\ waker_lock = NoThread
    /\ thread = [t \in Threads |-> Idle]
    /\ woken = {}
    /\ owed = {}
    /\ nwakers = 0
    /\ inq = << >>
    /\ passed = << >>
    /\ arrived = << >>
    /\ iopc = "idle"
    /\ iolog = << >>
    /\ ioret = "none"
    /\ store = {}
    /\ nm = NoOp
    /\ found = NoFind
    /\ lock_owner = [l \in Locks |-> NoThread]
    /\ poisoned = {}
    /\ lthread = [t \in Threads |-> Running]
    /\ ltab = EmptyTables

\* NonblockReply::send_with_reply with a caller's callback.
send_with_reply(ok) ==
        /\ CanCall
        /\ ok => nextSerial <= MaxSerial
        /\ LET r == ChannelSend(ok) IN
           IF r # 0 /\ Relocks("replies")
           THEN RelockCrash(r) /\ UNCHANGED <<filters, filter_nextid>>
           ELSE /\ replies' = send_with_reply_table(replies, r, UserCb)
                /\ nextSerial' = SerialAfter(r)
                /\ waker' = FALSE
                /\ Call(Returned("send_with_reply", 0, r))
                /\ UNCHANGED <<flavor, server, apart, inbound, dispatch, invoked, cancelled, ftab, futs>>

SendWithReply == \E ok \in BOOLEAN : send_with_reply(ok)

\* NonblockReply::cancel_reply.
cancel_reply(id) ==
        /\ CanCall
        /\ IF Relocks("replies")
           THEN RelockCrash(0) /\ UNCHANGED <<filters, filter_nextid>>
           ELSE /\ replies' = cancel_reply_table(replies, id)
                /\ invoked' = cancel_reply_invoked(invoked, replies, id)
                /\ cancelled' = IF id \in DOMAIN replies THEN cancelled \cup {id}
                                ELSE cancelled
                /\ Call(Returned("cancel_reply", id, cancel_reply_result(replies, id)))
                /\ UNCHANGED <<flavor, server, apart, inbound, dispatch, chan, ftab, futs>>

CancelReply == \E id \in Serials : cancel_reply(id)

\* Variant with a fault: a failed send that is not recorded in the cell.
method_call_cell_unset(r, owner) ==
    [st |-> "Neither", wk |-> 0, readfn |-> TRUE, alive |-> TRUE, owner |-> owner,
     serial |-> r]
\* Proxy::method_call: the cell of the MethodReply it returns (send result r).
method_call_cell(r, owner) ==
    [st |-> IF r = 0 THEN "ReadyErr" ELSE "Neither", wk |-> 0, readfn |-> TRUE,
     alive |-> TRUE, owner |-> owner, serial |-> r]

\* Proxy::method_call by the owner of the connection or by a callback.
method_call(ok) ==
        /\ CanCall
        /\ ok => nextSerial <= MaxSerial
        /\ LET r == ChannelSend(ok)
               m == nMR + 1
           IN IF r # 0 /\ Relocks("replies")
              THEN RelockCrash(r) /\ UNCHANGED <<filters, filter_nextid>>
              ELSE /\ replies' = send_with_reply_table(replies, r, MrCb(m))
                   /\ nextSerial' = SerialAfter(r)
                   /\ waker' = FALSE
                   /\ mr' = [mr EXCEPT ![m] = method_call_cell(r, "user")]
                   /\ nMR' = m
                   /\ Call(Returned("method_call", m, r))
                   /\ UNCHANGED <<flavor, server, apart, inbound, dispatch, invoked, cancelled, ftab, pollLog,
                                  wakeLog>>

MethodCall == \E ok \in BOOLEAN : nMR < MaxMR /\ method_call(ok)

MethodCalls == \E ok \in BOOLEAN : nMR < MaxFutures /\ method_call(ok)

\* MethodReply::poll by the holder of the future, possibly on another thread
\* than the dispatch; its waker is named by the number of the poll.
Poll ==
    \E m \in MRs :
        /\ ~Crashed
        /\ mr[m].alive /\ mr[m].owner = "user"
        /\ Len(pollLog[m]) < MaxPolls
        /\ pollLog' = [pollLog EXCEPT ![m] = Append(@, poll_result(mr[m]))]
        /\ mr' = [mr EXCEPT ![m] = poll_cell(@, Len(pollLog[m]) + 1)]
        /\ UNCHANGED <<flavor, server, apart, inbound, dispatch, reent, chan, rtab, ftab, nMR, wakeLog, last>>

\* The holder drops its MethodReply.
DropMethodReply ==
    \E m \in MRs :
        /\ pc = "idle"
        /\ mr[m].alive /\ mr[m].owner = "user"
        /\ mr' = [mr EXCEPT ![m].alive = FALSE]
        /\ replies' = drop_reply_table(replies, m)
        /\ Call(Returned("drop", m, 0))
        /\ UNCHANGED <<flavor, server, apart, inbound, dispatch, chan, invoked, cancelled, ftab, nMR, pollLog,
                       wakeLog>>

\* ------------------------------------------------------------ filter table
\* start_receive: Local takes filter_nextid and then increments it; Sync
\* increments filters.0 and takes the new value.
start_receive_id(n) == IF flavor = "Local" THEN n ELSE n + 1
start_receive_next(n) == n + 1

\* The callback of the k-th registration is named k.
start_receive(rule) ==
        /\ CanCall
        /\ IF Relocks("filters")
           THEN RelockCrash(0) /\ UNCHANGED <<filters, filter_nextid>>
           ELSE LET id == start_receive_id(filter_nextid) IN
                /\ filter_nextid' = start_receive_next(filter_nextid)
                /\ filters' = Insert(filters, id, [rule |-> rule, f |-> filter_nextid + 1])
                /\ Call(Returned("start_receive", 0, id))
                /\ UNCHANGED <<flavor, server, apart, inbound, dispatch, chan, rtab, dropq, futs>>

StartReceive == \E rule \in Rules : filter_nextid < MaxFilters /\ start_receive(rule)

Subscribe == \E rule \in Rules : filter_nextid < MaxSubs /\ start_receive(rule)

\* Registrations where only the removal and its cleanup are exercised.
SubscribeFoo == filter_nextid < MaxSubs /\ start_receive([interface |-> "Foo"])

\* MatchRule::match_str, the rule as sent to the bus.
match_str(rule) ==
    IF rule.interface = "" THEN "" ELSE "interface='" \o rule.interface \o "'"

\* Variant with a fault: stop_receive that looks the filter up and leaves it.
stop_receive_kept(tbl, id) == tbl

\* stop_receive: filters.remove(&id), the pair it returns (NoFilter: None).
stop_receive_result(tbl, id) == IF id \in DOMAIN tbl THEN tbl[id] ELSE NoFilter
stop_receive_table(tbl, id) == Remove(tbl, id)
\* Sync queues (match string, remove_match call) when it removed a filter;
\* Local has no cleanup queue and calls nothing.
stop_receive_unregisters(tbl, id) == flavor = "Sync" /\ id \in DOMAIN tbl
stop_receive_drop(q, rule, m) == Append(q, [match_str |-> match_str(rule), fut |-> m])

\* stop_receive. Sync also calls remove_match on the bus (a method_call) and
\* queues its MethodReply for the cleanup hook.
stop_receive(id, ok) ==
        /\ CanCall
        /\ ok => nextSerial <= MaxSerial
        /\ IF Relocks("filters")
           THEN RelockCrash(0) /\ UNCHANGED <<filters, filter_nextid>>
           ELSE IF ~stop_receive_unregisters(filters, id)
           THEN /\ ~ok
                /\ filters' = stop_receive_table(filters, id)
                /\ last' = [Returned("stop_receive", id, 0) EXCEPT
                                !.v = stop_receive_result(filters, id)]
                /\ reent' = IF pc = "idle" THEN reent ELSE reent + 1
                /\ UNCHANGED <<flavor, server, apart, inbound, dispatch, chan, rtab, filter_nextid, dropq, futs>>
           ELSE LET r == ChannelSend(ok)
                    m == nMR + 1
                IN /\ filters' = stop_receive_table(filters, id)
                   /\ IF r # 0 /\ Relocks("replies")
                      THEN RelockCrash(r) /\ UNCHANGED filter_nextid
                      ELSE /\ replies' = send_with_reply_table(replies, r, MrCb(m))
                           /\ nextSerial' = SerialAfter(r)
                           /\ waker' = FALSE
                           /\ mr' = [mr EXCEPT ![m] = method_call_cell(r, "drop")]
                           /\ nMR' = m
                           /\ dropq' = stop_receive_drop(dropq, filters[id].rule, m)
                           /\ last' = [Returned("stop_receive", id, r) EXCEPT
                                           !.v = stop_receive_result(filters, id)]
                           /\ reent' = IF pc = "idle" THEN reent ELSE reent + 1
                           /\ UNCHANGED <<flavor, server, apart, inbound, dispatch, invoked, cancelled,
                                          filter_nextid, pollLog, wakeLog>>

\* A removal that calls remove_match needs a free MethodReply cell.
StopReceive ==
    \E id \in 0..MaxSubs, ok \in BOOLEAN :
        /\ stop_receive_unregisters(filters, id) => nMR < MaxMR
        /\ stop_receive(id, ok)

StopReceives ==
    \E id \in 0..MaxSubs, ok \in BOOLEAN :
        /\ stop_receive_unregisters(filters, id) => nMR < MaxFutures
        /\ stop_receive(id, ok)

\* Process::set_waker.
SetWaker ==
    /\ pc = "idle"
    /\ ~waker
    /\ waker' = TRUE
    /\ UNCHANGED <<flavor, server, apart, inbound, dispatch, reent, nextSerial, rtab, ftab, futs, last>>

\* ------------------------------------------------------------ process_one
\* Variant with a fault: the last matching filter instead of the first.
MatchFilterLast(tbl, msg) ==
    LET ks == {k \in DOMAIN tbl : matches(tbl[k].rule, msg)}
    IN IF ks = {} THEN {} ELSE {CHOOSE x \in ks : \A y \in ks : y <= x}

\* The first filter, in the BTreeMap's key order, whose rule matches.
MatchFilter(tbl, msg) ==
    LET ks == {k \in DOMAIN tbl : matches(tbl[k].rule, msg)}
    IN IF ks = {} THEN {} ELSE {SetMin(ks)}
\* The borrow / lock of `replies` taken in the condition of the `if let` lives
\* until the end of the `if let`, so across the callback; the filter guard is
\* dropped by hand before the callback.
held_in_reply_callback == {"replies"}
held_in_filter_callback == {}
\* Variant with a fault: a loop that answers no unhandled call.
send_default_reply_never(msg) == FALSE
\* if let Some(reply) = default_reply(&msg) { let _ = self.send(reply); }
send_default_reply(msg) == default_reply(msg)

\* Variant with a fault: the filter stays in the table while its callback runs.
filters_during_callback_kept(tbl, k) == tbl
\* let mut v = filters.remove(&k).unwrap(); drop(filters); v.1(msg, &self)
filters_during_callback(tbl, k) == Remove(tbl, k)

process_one(msg, ok) ==
        /\ pc = "idle"
        /\ reent' = 0
        /\ last' = last
        /\ LET serial == get_reply_serial(msg)
               hit == MatchReply(replies, serial)
               flt == MatchFilter(filters, msg)
           IN IF hit # {}
              THEN LET s == CHOOSE x \in hit : TRUE
                       f == replies[s]
                   IN /\ ~ok
                      /\ replies' = AfterMatchReply(replies, s)
                      /\ invoked' = [invoked EXCEPT ![s] = @ + 1]
                      /\ held' = held_in_reply_callback
                      /\ IF f.kind = "user"
                         THEN /\ pc' = "reply_cb"
                              /\ running' = [NotRunning EXCEPT !.kind = "user", !.rs = serial,
                                                                !.serial = s]
                              /\ mr' = mr
                         ELSE /\ pc' = "mr_wake"
                              /\ running' = [NotRunning EXCEPT !.kind = "mr", !.rs = serial,
                                                !.serial = s, !.m = f.m, !.oldst = mr[f.m].st,
                                                !.oldwk = mr[f.m].wk]
                              /\ mr' = [mr EXCEPT ![f.m] = callback_store(@)]
                      /\ UNCHANGED <<flavor, server, apart, chan, cancelled, ftab, nMR, pollLog, wakeLog>>
              ELSE IF flt # {}
              THEN LET k == CHOOSE x \in flt : TRUE IN
                      /\ ~ok
                      /\ filters' = filters_during_callback(filters, k)
                      /\ held' = held_in_filter_callback
                      /\ pc' = "filter_cb"
                      /\ running' = [NotRunning EXCEPT !.kind = "filter", !.rs = serial, !.id = k,
                                                        !.v = filters[k]]
                      /\ UNCHANGED <<flavor, server, apart, chan, rtab, filter_nextid, dropq, futs>>
              ELSE IF send_default_reply(msg)
              THEN \* let _ = self.send(reply)
                   LET r == ChannelSend(ok) IN
                      /\ ok => nextSerial <= MaxSerial
                      /\ nextSerial' = SerialAfter(r)
                      /\ waker' = FALSE
                      /\ UNCHANGED <<flavor, server, apart, dispatch, rtab, ftab, futs>>
              ELSE /\ ~ok
                   /\ UNCHANGED <<flavor, server, apart, dispatch, chan, rtab, ftab, futs>>

\* A message handed to process_one by itself, the inbound queue left alone.
ProcessOne ==
    \E msg \in Messages, ok \in BOOLEAN : process_one(msg, ok) /\ UNCHANGED inbound

\* The inbound messages that are replies.
ProcessReply ==
    \E msg \in {m \in Messages : m.rs # 0 /\ ~m.call} :
        process_one(msg, FALSE) /\ UNCHANGED inbound

\* A caller's reply callback returns; the `if let` ends and frees the table.
ReplyReturn ==
    /\ pc = "reply_cb"
    /\ pc' = "idle"
    /\ held' = {}
    /\ running' = NotRunning
    /\ UNCHANGED <<flavor, server, apart, inbound, reent, chan, rtab, ftab, futs, last>>

\* The method_call callback, after it has stored Ready and freed the cell:
\* it wakes the waker it found, and returns.
MrWake ==
    /\ pc = "mr_wake"
    /\ wakeLog' = [wakeLog EXCEPT ![running.m] =
                       callback_wake(@, running.oldst, running.oldwk)]
    /\ pc' = "idle"
    /\ held' = {}
    /\ running' = NotRunning
    /\ UNCHANGED <<flavor, server, apart, inbound, reent, chan, rtab, ftab, mr, nMR, pollLog, last>>

\* Variant with a fault: the filter goes back whatever its callback returned.
filter_after_callback_always(tbl, k, v, keep) == Insert(tbl, k, v)

\* A filter callback returns; the filter goes back under its id if it said so.
filter_after_callback(tbl, k, v, keep) == IF keep THEN Insert(tbl, k, v) ELSE tbl

filter_return(keep) ==
        /\ pc = "filter_cb"
        /\ filters' = filter_after_callback(filters, running.id, running.v, keep)
        /\ pc' = "idle"
        /\ held' = {}
        /\ running' = NotRunning
        /\ UNCHANGED <<flavor, server, apart, inbound, reent, chan, rtab, filter_nextid, dropq, futs, last>>

FilterReturn == \E keep \in BOOLEAN : filter_return(keep)

\* ------------------------------------------------------------------ drops
\* Variant with a fault: completed entries go back into the queue too.
drops_queue_all(q, cells) == q
\* SyncConnection::drops polls every queued remove_match call once, in queue
\* order, and keeps the entries whose poll returned Pending.
drops_queue(q, cells) == SelectSeq(q, LAMBDA e : poll_result(cells[e.fut]) = "Pending")
Queued(q) == {q[i].fut : i \in DOMAIN q}

\* Process::drops. LocalConnection's is unimplemented!().
Drops ==
    /\ pc = "idle"
    /\ IF flavor = "Local"
       THEN /\ pc' = "panicked"
            /\ UNCHANGED <<flavor, server, apart, inbound, held, running, reent, chan, rtab, ftab, futs, last>>
       ELSE /\ \A m \in Queued(dropq) : Len(pollLog[m]) < MaxPolls
            /\ pollLog' = [m \in MRs |-> IF m \in Queued(dropq)
                                          THEN Append(pollLog[m], poll_result(mr[m]))
                                          ELSE pollLog[m]]
            /\ mr' = [m \in MRs |-> IF m \in Queued(dropq)
                                     THEN poll_cell(mr[m], Len(pollLog[m]) + 1)
                                     ELSE mr[m]]
            /\ dropq' = drops_queue(dropq, mr)
            /\ UNCHANGED <<flavor, server, apart, inbound, dispatch, reent, chan, rtab, filters, filter_nextid,
                           nMR, wakeLog, last>>

\* ------------------------------------------------------- method dispatch
\* What a dispatch does: an error, a handler body run, or a panic.
\* n is the number of times the handler body has been executed.
Fails(e) == [err |-> e, n |-> 0, panic |-> FALSE]
Ran(n) == [err |-> "", n |-> n, panic |-> FALSE]
Runs == Ran(1)
Panics == [err |-> "", n |-> 0, panic |-> TRUE]
Shape(c) == Registry[c.iface].methods[c.member]

\* Variant with a fault: a missing interface entry reported as a missing method.
no_entry_as_method(c) == "NoSuchMethod"
\* cr.reg.get_mut(iface).ok_or_else(|| MethodErr::no_interface(..))
no_entry(c) == "NoSuchInterface"

\* Handlers::call_method_ref for () and Local: only an AllRef handler is
\* called; the other three shapes are unreachable!().
call_method_ref(shape) == IF shape = "AllRef" THEN Runs ELSE Panics

\* Crossroads::dispatch_ref: looks the interface and the method up and hands
\* the handler to call_method_ref.
dispatch_ref_outcome(c) ==
    IF c.iface \notin DOMAIN Registry THEN Fails("NoSuchInterface")
    ELSE IF c.member \notin DOMAIN Registry[c.iface].methods THEN Fails("NoSuchMethod")
    ELSE call_method_ref(Shape(c))

\* Variants with a fault: an AllRef handler also executed inside the match; the
\* path looked up before the method.
runs_in_match_all(shape) == 1
call_method_mut_path_first(tree, c) ==
    IF c.iface \notin DOMAIN Registry THEN Fails("NoSuchInterface")
    ELSE IF c.path \notin DOMAIN tree THEN Fails("NoSuchPath")
    ELSE IF c.member \notin DOMAIN Registry[c.iface].methods THEN Fails("NoSuchMethod")
    ELSE IF Shape(c) = "MutIface" /\ Registry[c.iface].typeid \notin tree[c.path]
         THEN Fails("NoSuchInterface")
         ELSE Runs

\* The match on the handler's shape in call_method_mut: the times the arm of
\* that shape executes the handler. The AllRef arm only sets try_ref.
runs_in_match(shape) == IF shape = "AllRef" THEN 0 ELSE 1

\* Handlers::call_method_mut for () and Local.
call_method_mut_outcome(tree, c) ==
    IF c.iface \notin DOMAIN Registry THEN Fails(no_entry(c))
    ELSE IF c.member \notin DOMAIN Registry[c.iface].methods THEN Fails("NoSuchMethod")
    ELSE CASE Shape(c) = "MutPath" ->
                IF c.path \notin DOMAIN tree THEN Fails("NoSuchPath")
                ELSE Ran(runs_in_match("MutPath"))
           [] Shape(c) = "MutIface" ->
                IF c.path \notin DOMAIN tree THEN Fails("NoSuchPath")
                ELSE IF Registry[c.iface].typeid \notin tree[c.path]
                     THEN Fails("NoSuchInterface")
                     ELSE Ran(runs_in_match("MutIface"))
           [] Shape(c) = "AllRef" ->
                \* try_ref = true; ...; if try_ref { cr.dispatch_ref(ctx) }
                LET d == dispatch_ref_outcome(c)
                IN [d EXCEPT !.n = @ + runs_in_match("AllRef")]
           [] Shape(c) = "MutCr" -> Ran(runs_in_match("MutCr"))

Total(cnt) == cnt[<<"Foo", "byPath">>] + cnt[<<"Foo", "byIface">>] + cnt[<<"Foo", "byRef">>]
              + cnt[<<"Foo", "byCr">>] + cnt[<<"Qux", "byIface">>]

\* The dispatch of call c through entry point via, with outcome o. A MutCr
\* handler has the whole registry: it may add or remove an object.
Dispatched(via, c, o) ==
    /\ Total(hcount) < MaxCalls
    /\ IF o.panic
       THEN /\ pc' = "panicked"
            /\ UNCHANGED <<flavor, held, running, reent, chan, rtab, ftab, futs, last, server,
                           apart, inbound>>
       ELSE /\ hres' = [via |-> via, call |-> c, result |-> IF o.err = "" THEN "Ok" ELSE o.err,
                       prev |-> hres.result]
            /\ hcount' = IF o.n > 0 THEN [hcount EXCEPT ![<<c.iface, c.member>>] = @ + o.n]
                         ELSE hcount
            /\ IF o.n > 0 /\ Shape(c) = "MutCr"
               THEN paths' \in {InitPaths, MorePaths}
               ELSE paths' = paths
            /\ UNCHANGED <<flavor, dispatch, reent, chan, rtab, ftab, futs, last, apart, inbound>>

call_method_mut(c) ==
        /\ pc = "idle"
        /\ Dispatched("call_method_mut", c, call_method_mut_outcome(paths, c))

dispatch_ref(c) ==
        /\ pc = "idle"
        /\ Dispatched("dispatch_ref", c, dispatch_ref_outcome(c))

CallMethodMut == \E c \in HCalls : call_method_mut(c)
DispatchRef == \E c \in HCalls : dispatch_ref(c)

\* ---------------------------------------------- the waker mutex, by thread
\* SyncConnection::set_waker: self.waker.lock().unwrap() waits for the mutex.
set_waker_lock ==
    /\ flavor = "Sync"
    /\ thread[Reactor].pc = "idle"
    /\ nwakers < MaxWakers
    /\ waker_lock = NoThread
    /\ waker_lock' = Reactor
    /\ thread' = [thread EXCEPT ![Reactor].pc = "locked"]
    /\ UNCHANGED <<flavor, server, dispatch, reent, chan, rtab, ftab, futs, last, io, inbound,
                   nmgr, locks, waker_slot, woken, owed, nwakers>>

\* *m = Some(waker): the waker that was in the slot is dropped.
set_waker_store ==
    /\ thread[Reactor].pc = "locked"
    /\ waker_slot' = nwakers + 1
    /\ nwakers' = nwakers + 1
    /\ thread' = [thread EXCEPT ![Reactor].pc = "stored"]
    /\ UNCHANGED <<flavor, server, dispatch, reent, chan, rtab, ftab, futs, last, io, inbound,
                   nmgr, locks, waker_lock, woken, owed>>

\* The guard goes out of scope and set_waker returns.
set_waker_return ==
    /\ thread[Reactor].pc = "stored"
    /\ waker_lock' = NoThread
    /\ thread' = [thread EXCEPT ![Reactor] = Idle]
    /\ UNCHANGED <<flavor, server, dispatch, reent, chan, rtab, ftab, futs, last, io, inbound,
                   nmgr, locks, waker_slot, woken, owed, nwakers>>

\* SyncConnection::send and send_with_reply: let r = self.channel.send(msg).
send_channel(t, ok) ==
        /\ flavor = "Sync"
        /\ thread[t].pc = "idle"
        /\ ok => nextSerial <= MaxSerial
        /\ LET r == ChannelSend(ok)
           IN /\ nextSerial' = SerialAfter(r)
              /\ thread' = [thread EXCEPT ![t] = [pc |-> "sent", r |-> r]]
        /\ UNCHANGED <<flavor, server, dispatch, reent, waker, rtab, ftab, futs, last, io,
                       inbound, nmgr, locks, waker_slot, waker_lock, woken, owed, nwakers>>

\* SyncConnection::send_with_reply on thread t: self.channel.send(msg.clone())
\* hands the message to the channel and returns its serial.
swr_channel(t, ok) ==
        /\ flavor = "Sync"
        /\ thread[t].pc = "idle"
        /\ ok => nextSerial <= MaxSerial
        /\ LET r == ChannelSend(ok)
           IN /\ nextSerial' = SerialAfter(r)
              /\ thread' = [thread EXCEPT ![t] = [pc |-> "handed", r |-> r]]
        /\ UNCHANGED <<flavor, server, dispatch, reent, waker, rtab, ftab, futs, last, io,
                       inbound, nmgr, locks, waker_slot, waker_lock, woken, owed, nwakers>>

\* .map(|x| { self.replies.lock().unwrap().insert(x, (msg, f)); x }): the
\* thread waits while the dispatch thread holds the lock of `replies`.
swr_insert(t) ==
        /\ thread[t].pc = "handed"
        /\ thread[t].r # 0 => ~Relocks("replies")
        /\ replies' = send_with_reply_table(replies, thread[t].r, UserCb)
        /\ thread' = [thread EXCEPT ![t].pc = "sent"]
        /\ UNCHANGED <<flavor, server, dispatch, reent, chan, invoked, cancelled, ftab, futs,
                       last, io, inbound, nmgr, locks, waker_slot, waker_lock, woken, owed, nwakers>>

\* if let Ok(mut v) = self.waker.try_lock(): Err when another thread holds it.
send_try_lock(t) ==
        /\ thread[t].pc = "sent"
        /\ IF waker_lock = NoThread
           THEN /\ waker_lock' = t
                /\ thread' = [thread EXCEPT ![t].pc = "locked"]
           ELSE /\ waker_lock' = waker_lock
                /\ thread' = [thread EXCEPT ![t].pc = "skipped"]
        /\ UNCHANGED <<flavor, server, dispatch, reent, chan, rtab, ftab, futs, last, io,
                       inbound, nmgr, locks, waker_slot, woken, owed, nwakers>>

\* if let Some(v) = v.take() { v.wake(); }
send_take_wake(t) ==
        /\ thread[t].pc = "locked"
        /\ woken' = IF waker_slot = 0 THEN woken ELSE woken \cup {waker_slot}
        /\ waker_slot' = 0
        /\ thread' = [thread EXCEPT ![t].pc = "woke"]
        /\ UNCHANGED <<flavor, server, dispatch, reent, chan, rtab, ftab, futs, last, io,
                       inbound, nmgr, locks, waker_lock, owed, nwakers>>

\* The send returns r, releasing the mutex if it held it. owed records the
\* waker a send that queued its message leaves in the slot, installed by a
\* set_waker that has returned.
send_return(t) ==
        /\ thread[t].pc \in {"woke", "skipped"}
        /\ waker_lock' = IF waker_lock = t THEN NoThread ELSE waker_lock
        /\ owed' = IF thread[t].r # 0 /\ waker_slot # 0 /\ thread[Reactor].pc # "stored"
                   THEN owed \cup {waker_slot}
                   ELSE owed
        /\ thread' = [thread EXCEPT ![t] = Idle]
        /\ UNCHANGED <<flavor, server, dispatch, reent, chan, rtab, ftab, futs, last, io,
                       inbound, nmgr, locks, waker_slot, woken, nwakers>>

SendChannel == \E t \in Senders, ok \in BOOLEAN : send_channel(t, ok)
SwrChannel == \E t \in Senders, ok \in BOOLEAN : swr_channel(t, ok)
SwrInsert == \E t \in Senders : swr_insert(t)
SendTryLock == \E t \in Senders : send_try_lock(t)
SendTakeWake == \E t \in Senders : send_take_wake(t)
SendReturn == \E t \in Senders : send_return(t)

\* ------------------------------------------------------------- IOResource
\* Variant with a fault: a failed read_write that does not end the poll.
after_read_write_ignored(ok) == "process_all"
\* c.read_write(..).map_err(..)?; self.connection.process_all();
after_read_write(ok) == IF ok THEN "process_all" ELSE "return"

\* The readiness calls of poll_internal after c.watch() returned w.
readiness_ops(w) ==
    <<"take_read_ready", "take_write_ready">>
    \o (IF w.read THEN <<"poll_read_ready">> ELSE << >>)
    \o (IF w.write THEN <<"poll_write_ready">> ELSE << >>)

\* The calls made when the f-th one fails (0: none fails): `?` ends the poll.
readiness_steps(w, f) ==
    LET ops == readiness_ops(w)
        n == IF f = 0 THEN Len(ops) ELSE f
    IN [i \in 1..n |-> Step(ops[i], i # f)]

\* <IOResource as Future>::poll: Ok(_) => Pending, Err(e) => Ready(e).
poll_output(ok) == IF ok THEN "Pending" ELSE "Ready"

\* IOResource::poll, up to process_all: read_write puts the messages it read
\* into the inbound queue, or fails.
poll_read_write(ok, new) ==
        /\ iopc = "idle"
        /\ pc = "idle"
        /\ iolog' = <<Step("read_write", ok)>>
        /\ IF after_read_write(ok) = "process_all"
           THEN /\ inq' = IF ok THEN inq \o new ELSE inq
                /\ arrived' = inq'
                /\ passed' = << >>
                /\ iopc' = "process_all"
                /\ ioret' = "none"
           ELSE /\ ioret' = poll_output(FALSE)
                /\ UNCHANGED <<inq, arrived, passed, iopc>>
        /\ UNCHANGED <<flavor, server, dispatch, reent, chan, rtab, ftab, futs, last, wakers,
                       nmgr, locks>>

\* Process::process_all: while let Some(msg) = c.pop_message() { process_one(msg) }
process_all_next(ok) ==
        /\ iopc = "process_all"
        /\ inq # << >>
        /\ process_one(Head(inq), ok)
        /\ inq' = Tail(inq)
        /\ passed' = Append(passed, Head(inq))

\* pop_message returns None: process_all returns.
process_all_end ==
    /\ iopc = "process_all"
    /\ pc = "idle"
    /\ inq = << >>
    /\ iolog' = Append(iolog, Step("process_all", TRUE))
    /\ iopc' = "readiness"
    /\ UNCHANGED <<flavor, server, dispatch, reent, chan, rtab, ftab, futs, last, wakers, nmgr, locks,
                   inbound, arrived, ioret>>

\* The rest of poll_internal, and the poll's return.
poll_readiness(w, f) ==
        /\ iopc = "readiness"
        /\ f <= Len(readiness_ops(w))
        /\ iolog' = iolog \o <<Step("watch", TRUE)>> \o readiness_steps(w, f)
        /\ ioret' = poll_output(\A i \in DOMAIN iolog' : iolog'[i].ok)
        /\ iopc' = "idle"
        /\ arrived' = << >>
        /\ passed' = << >>
        /\ UNCHANGED <<flavor, server, dispatch, reent, chan, rtab, ftab, futs, last, wakers, nmgr, locks,
                       inq>>

PollReadWrite ==
    \E ok \in BOOLEAN, new \in Arrivals : (~ok => new = << >>) /\ poll_read_write(ok, new)
ProcessAllNext == \E ok \in BOOLEAN : process_all_next(ok)
PollReadiness == \E w \in Watches, f \in 0..4 : poll_readiness(w, f)

\* --------------------------------------------------------- NetworkManager
\* The calls up to and with the first of them that failed.
UpToFailure(chain) ==
    LET bad == {i \in DOMAIN chain : chain[i].res = "Err"}
    IN IF bad = {} THEN chain ELSE SubSeq(chain, 1, SetMin(bad))

\* NetworkManager::hotspot_remove_existing on store st. The lookup fails
\* when no connection has the uuid, and it may fail when one has.
hotspot_remove_existing(st, o) ==
    LET hit == st # {} /\ o.lookup
        path == SetMin(st)
    IN IF ~hit
       THEN \* Err(_) => {}
            [calls |-> <<R("get_connection_by_uuid", "Err")>>, ok |-> TRUE, store |-> st]
       ELSE [calls |-> <<R("get_connection_by_uuid", "Ok"), R("delete", Res(o.delete))>>,
             ok |-> o.delete,
             store |-> IF o.delete THEN st \ {path} ELSE st]

\* Variant with a fault: the volatile update is made whatever the state is.
after_wait_any(state) == "volatile"
\* if state_after_wait != Activated { return Err(hotspot_failed()) }
after_wait(state) == IF state = "Activated" THEN "volatile" ELSE "hotspot_failed"

\* NetworkManager::hotspot_start on store st, the bus answering as in o.
hotspot_start(st, o) ==
    LET r == hotspot_remove_existing(st, o)
        chain == UpToFailure(<<R("make_arguments_for_sta", Res(o.args)),
                               R("add_connection", Res(o.add)),
                               R("update2_in_memory", Res(o.update)),
                               R("activate_connection", Res(o.activate)),
                               R("state", Res(o.state)),
                               R("wait_for_active_connection_state", o.wait)>>)
        added == \E i \in DOMAIN chain : chain[i] = R("add_connection", "Ok")
        new == SetMin((1..(MaxStored + 1)) \ r.store)
        store1 == IF added THEN r.store \cup {new} ELSE r.store
    IN IF ~r.ok
       THEN [op |-> "hotspot_start", calls |-> r.calls, result |-> "Err", store |-> r.store]
       ELSE IF chain[Len(chain)].res = "Err"
       THEN [op |-> "hotspot_start", calls |-> r.calls \o chain, result |-> "Err",
             store |-> store1]
       ELSE IF after_wait(o.wait) = "hotspot_failed"
       THEN [op |-> "hotspot_start", calls |-> r.calls \o chain,
             result |-> "hotspot_failed", store |-> store1]
       ELSE \* if let Err(e) = p.update2(.., VOLATILE_FLAG, ..).await { warn!(..) }
            [op |-> "hotspot_start",
             calls |-> r.calls \o chain \o <<R("update2_volatile", Res(o.volatile))>>,
             result |-> "Ok", store |-> store1]

\* The calls deactivate_hotspots makes for the active connections act.
deactivate_calls(act, fail) ==
    LET one(i) == <<R("get_connection_settings", IF act[i] = "Err" THEN "Err" ELSE "Ok")>>
                  \o (IF act[i] = "AP"
                      THEN <<R("deactivate_connection", Res(i # fail))>>
                      ELSE << >>)
        upto[i \in 0..Len(act)] == IF i = 0 THEN << >> ELSE upto[i - 1] \o one(i)
        stop == {i \in DOMAIN act : act[i] = "AP" /\ i = fail}
    IN IF stop = {} THEN upto[Len(act)] ELSE upto[SetMin(stop)]

\* NetworkManager::deactivate_hotspots.
deactivate_hotspots(st, o, act) ==
    LET r == hotspot_remove_existing(st, o)
        scan == deactivate_calls(act, o.fail)
    IN IF ~r.ok
       THEN [op |-> "deactivate_hotspots", calls |-> r.calls, result |-> "Err",
             store |-> r.store]
       ELSE IF ~o.active
       THEN [op |-> "deactivate_hotspots",
             calls |-> r.calls \o <<R("active_connections", "Err")>>, result |-> "Err",
             store |-> r.store]
       ELSE [op |-> "deactivate_hotspots",
             calls |-> r.calls \o <<R("active_connections", "Ok")>> \o scan,
             result |-> IF scan # << >> /\ scan[Len(scan)] = R("deactivate_connection", "Err")
                        THEN "Err" ELSE "Ok",
             store |-> r.store]

\* The operation has run to completion with outcome x.
Completed(x) ==
    /\ store' = x.store
    /\ nm' = [op |-> x.op, calls |-> x.calls, result |-> x.result]
    /\ UNCHANGED <<flavor, server, dispatch, reent, chan, rtab, ftab, futs, last, wakers, io,
                   inbound, locks, found>>

HotspotStart ==
    \E o \in StartOutcomes :
        /\ Cardinality(hotspot_start(store, o).store) <= MaxStored
        /\ Completed(hotspot_start(store, o))

DeactivateHotspots ==
    \E o \in DeactivateOutcomes, act \in ActiveConnections :
        /\ Len(act) <= MaxActive
        /\ Completed(deactivate_hotspots(store, o, act))

\* ------------------------------------------------------- find_wifi_device
\* Variant with a fault: the scan that takes the last WiFi device listed.
last_wifi(devs) ==
    LET w == {i \in DOMAIN devs : devs[i]}
    IN IF w = {} THEN 0 ELSE CHOOSE i \in w : \A j \in w : j <= i
\* for device_path in device_paths { .. if dtype == WiFi { .. return Ok(..) } }
first_wifi(devs) ==
    LET w == {i \in DOMAIN devs : devs[i]}
    IN IF w = {} THEN 0 ELSE SetMin(w)

D(call, dev) == [call |-> call, dev |-> dev]

\* The bus calls of find_wifi_device if none of them fails.
find_calls(pref, devs) ==
    LET known == pref \in DOMAIN devs
        w == first_wifi(devs)
        n == IF w = 0 THEN Len(devs) ELSE w
        scan == <<D("get_all_devices", 0)>>
                \o [i \in 1..n |-> D("device_type", i)]
                \o (IF w # 0 THEN <<D("hw_address", w), D("interface", w)>> ELSE << >>)
    IN IF pref = 0 THEN scan
       ELSE IF ~known THEN <<D("get_device_by_ip_iface", pref)>>
       ELSE IF devs[pref]
       THEN <<D("get_device_by_ip_iface", pref), D("device_type", pref),
              D("hw_address", pref)>>
       ELSE <<D("get_device_by_ip_iface", pref), D("device_type", pref)>> \o scan

\* find_wifi_device(connection, preferred_interface) where the fail-th bus
\* call fails (0: none does); the lookup of an interface that no device is
\* on fails by itself.
find_wifi_device(pref, devs, fail) ==
    LET plan == find_calls(pref, devs)
        f == IF pref # 0 /\ pref \notin DOMAIN devs THEN 1
             ELSE IF fail \in DOMAIN plan THEN fail ELSE 0
        n == IF f = 0 THEN Len(plan) ELSE f
        byPref == pref \in DOMAIN devs /\ devs[pref]
        dev == IF byPref THEN pref ELSE first_wifi(devs)
    IN [preferred |-> pref, devices |-> devs,
        calls |-> [i \in 1..n |-> [call |-> plan[i].call, dev |-> plan[i].dev, ok |-> i # f]],
        res |-> IF f # 0 THEN "Err" ELSE IF dev # 0 THEN "Ok" ELSE "no_wifi_device",
        device |-> IF f # 0 THEN 0 ELSE dev]

FindWifiDevice ==
    \E devs \in Devices, pref \in 0..(MaxDevices + 1), fail \in 0..(MaxDevices + 5) :
        /\ found' = find_wifi_device(pref, devs, fail)
        /\ UNCHANGED <<flavor, server, dispatch, reent, chan, rtab, ftab, futs, last, wakers, io,
                       inbound, locks, store, nm>>

\* ------------------------------------------- SyncConnection, lock by lock
\* The steps a call takes on the mutexes of the connection, in program order.
Acq(l) == [k |-> "acq", l |-> l]
Rel(l) == [k |-> "rel", l |-> l]
Callback == [k |-> "cb", l |-> ""]
\* A guard is released where its binding goes out of scope: locals in reverse
\* order of declaration, the temporary of an if-let scrutinee after its blocks.
Code(op) ==
    CASE op = "start_receive" -> <<Acq("filters"), Rel("filters")>>
      [] op = "stop_receive" -> <<Acq("filters")>>
      [] op = "stop_receive_none" -> <<Rel("filters")>>
      [] op = "stop_receive_some" -> <<Acq("drop")>>
      [] op = "remove_match_sent" ->
            <<Acq("replies"), Rel("replies"), Rel("drop"), Rel("filters")>>
      [] op = "remove_match_unsent" -> <<Rel("drop"), Rel("filters")>>
      [] op = "send_with_reply" -> <<Acq("replies"), Rel("replies")>>
      [] op = "drops" -> <<Acq("drop"), Rel("drop")>>
      [] op = "process_one_reply" -> <<Acq("replies")>>
      [] op = "reply_callback" -> <<Callback, Rel("replies")>>
      [] op = "reply_method_call" -> <<Rel("replies")>>
      [] op = "reply_unmatched" -> <<Rel("replies"), Acq("filters")>>
      [] op = "process_one_filters" -> <<Acq("filters")>>
      [] op = "filter_kept" -> <<Rel("filters"), Callback, Acq("filters"), Rel("filters")>>
      [] op = "filter_dropped" -> <<Rel("filters"), Callback>>
      [] op = "no_filter" -> <<Rel("filters")>>

\* The tables after step i of op: an insert under the lock just taken.
Inserted(op, i, tab) ==
    CASE op = "start_receive" /\ i = 1 -> [tab EXCEPT !.filters = @ + 1]
      [] op = "send_with_reply" /\ i = 1 -> [tab EXCEPT !.user = @ + 1]
      [] op = "remove_match_sent" /\ i = 1 -> [tab EXCEPT !.mr = @ + 1]
      [] op = "filter_kept" /\ i = 3 -> [tab EXCEPT !.filters = @ + 1]
      [] OTHER -> tab

\* process_one with the filter lock taken: the first matching filter is taken
\* out of the table for its callback, which returns true or false.
Matched(tab) ==
    {[op |-> o, tab |-> [tab EXCEPT !.filters = @ - 1]] :
        o \in IF tab.filters > 0 THEN {"filter_kept", "filter_dropped"} ELSE {}}
        \cup {[op |-> "no_filter", tab |-> tab]}
\* How a call goes on after the last step of op, by what it found in the
\* table it has locked; no way on: the call returns.
Branches(op, tab) ==
    CASE op = "stop_receive" ->
            {[op |-> "stop_receive_some", tab |-> [tab EXCEPT !.filters = @ - 1]] :
                x \in IF tab.filters > 0 THEN {1} ELSE {}}
                \cup {[op |-> "stop_receive_none", tab |-> tab]}
      [] op = "stop_receive_some" ->
            {[op |-> "remove_match_sent", tab |-> [tab EXCEPT !.serials = @ + 1]] :
                x \in IF tab.serials < MaxSerial THEN {1} ELSE {}}
                \cup {[op |-> "remove_match_unsent", tab |-> tab]}
      [] op = "process_one_reply" ->
            {[op |-> "reply_callback", tab |-> [tab EXCEPT !.user = @ - 1]] :
                x \in IF tab.user > 0 THEN {1} ELSE {}}
                \cup {[op |-> "reply_method_call", tab |-> [tab EXCEPT !.mr = @ - 1]] :
                        x \in IF tab.mr > 0 THEN {1} ELSE {}}
                \cup {[op |-> "reply_unmatched", tab |-> tab]}
      [] op \in {"reply_unmatched", "process_one_filters"} -> Matched(tab)
      [] OTHER -> {}

Top(t) == lthread[t].stack[Len(lthread[t].stack)]
Instr(t) == Code(Top(t).op)[Top(t).i]
Busy(t) == lthread[t].st = "run" /\ lthread[t].stack # << >>
HeldBy(t) == {l \in Locks : lock_owner[l] = t}
Frame(op) == [op |-> op, i |-> 1, n |-> 0]
\* Thread t has done its step: the call is at its next step, goes on as one
\* of its branches, or returns to its caller.
Advance(t) ==
    LET stk == lthread[t].stack
        d == Len(stk)
        f == stk[d]
        tab == Inserted(f.op, f.i, ltab)
    IN IF f.i < Len(Code(f.op))
       THEN /\ lthread' = [lthread EXCEPT ![t].stack[d].i = f.i + 1]
            /\ ltab' = tab
       ELSE IF Branches(f.op, tab) = {}
       THEN /\ lthread' = [lthread EXCEPT ![t].stack = SubSeq(stk, 1, d - 1)]
            /\ ltab' = tab
       ELSE \E b \in Branches(f.op, tab) :
                /\ lthread' = [lthread EXCEPT ![t].stack[d] = Frame(b.op)]
                /\ ltab' = b.tab

\* A panic unwinds every call of the thread: its guards are dropped and
\* their mutexes are poisoned.
Unwound(t, st) ==
    IF st = "panicked"
    THEN /\ lthread' = [lthread EXCEPT ![t] = [st |-> "panicked", stack |-> << >>]]
         /\ lock_owner' = [l \in Locks |-> IF lock_owner[l] = t THEN NoThread ELSE lock_owner[l]]
         /\ poisoned' = poisoned \cup HeldBy(t)
    ELSE /\ lthread' = [lthread EXCEPT ![t].st = st]
         /\ UNCHANGED <<lock_owner, poisoned>>

LockFrame == <<flavor, server, dispatch, reent, chan, rtab, ftab, futs, last, wakers, io,
               inbound, nmgr>>

\* The calls threads make on a shared connection: the reactor dispatches and
\* cleans up, the others send, subscribe and unsubscribe.
CallsOf(t) ==
    IF t = Reactor
    THEN {"process_one_reply", "process_one_filters", "drops"}
    ELSE {"send_with_reply", "start_receive", "stop_receive"}
\* The call hands out an id (start_receive) or a serial (the channel's send
\* in send_with_reply, before any lock).
HandsOut(op, tab) ==
    CASE op = "start_receive" -> [tab EXCEPT !.ids = @ + 1]
      [] op = "send_with_reply" -> [tab EXCEPT !.serials = @ + 1]
      [] OTHER -> tab
CanHandOut(op, tab) ==
    /\ op = "start_receive" => tab.ids < MaxSubs
    /\ op = "send_with_reply" => tab.serials < MaxSerial

lock_call(t, op) ==
        /\ flavor = "Sync"
        /\ lthread[t] = Running
        /\ op \in CallsOf(t)
        /\ CanHandOut(op, ltab)
        /\ lthread' = [lthread EXCEPT ![t].stack = <<Frame(op)>>]
        /\ ltab' = HandsOut(op, ltab)
        /\ UNCHANGED <<LockFrame, lock_owner, poisoned>>

\* Mutex::lock().unwrap() on a free mutex.
lock_acquire(t) ==
        /\ Busy(t)
        /\ Instr(t).k = "acq"
        /\ lock_owner[Instr(t).l] = NoThread
        /\ Instr(t).l \notin poisoned
        /\ lock_owner' = [lock_owner EXCEPT ![Instr(t).l] = t]
        /\ Advance(t)
        /\ UNCHANGED <<LockFrame, poisoned>>

\* lock() on a poisoned mutex returns Err and unwrap panics.
lock_poisoned(t) ==
        /\ Busy(t)
        /\ Instr(t).k = "acq"
        /\ lock_owner[Instr(t).l] = NoThread
        /\ Instr(t).l \in poisoned
        /\ Unwound(t, "panicked")
        /\ UNCHANGED <<LockFrame, ltab>>

\* lock() on a mutex the thread itself holds: it waits for itself, or panics.
lock_relock(t) ==
        /\ Busy(t)
        /\ Instr(t).k = "acq"
        /\ lock_owner[Instr(t).l] = t
        /\ \E st \in RelockOutcomes : Unwound(t, st)
        /\ UNCHANGED <<LockFrame, ltab>>

\* The guard goes out of scope.
lock_release(t) ==
        /\ Busy(t)
        /\ Instr(t).k = "rel"
        /\ lock_owner' = [lock_owner EXCEPT ![Instr(t).l] = NoThread]
        /\ Advance(t)
        /\ UNCHANGED <<LockFrame, poisoned>>

\* The callback returns to process_one.
callback_return(t) ==
        /\ Busy(t)
        /\ Instr(t).k = "cb"
        /\ Advance(t)
        /\ UNCHANGED <<LockFrame, lock_owner, poisoned>>

\* The callback calls start_receive or stop_receive on the connection it was given.
callback_calls(t, op) ==
        /\ Busy(t)
        /\ Instr(t).k = "cb"
        /\ Top(t).n < MaxReenter
        /\ CanHandOut(op, ltab)
        /\ LET d == Len(lthread[t].stack)
           IN lthread' = [lthread EXCEPT ![t].stack =
                              Append([@ EXCEPT ![d].n = @ + 1], Frame(op))]
        /\ ltab' = HandsOut(op, ltab)
        /\ UNCHANGED <<LockFrame, lock_owner, poisoned>>

LockCall == \E t \in Threads : \E op \in CallsOf(t) : lock_call(t, op)
LockAcquire == \E t \in Threads : lock_acquire(t)
LockPoisoned == \E t \in Threads : lock_poisoned(t)
LockRelock == \E t \in Threads : lock_relock(t)
LockRelease == \E t \in Threads : lock_release(t)
CallbackReturn == \E t \in Threads : callback_return(t)
CallbackCalls == \E t \in Threads, op \in {"start_receive", "stop_receive"} : callback_calls(t, op)

\* ---------------------------------------------------------- specifications
\* The connection: calls, filters and the dispatch of inbound messages.
Next ==
    \/ SendWithReply
    \/ CancelReply
    \/ StartReceive
    \/ ProcessOne
    \/ ReplyReturn
    \/ FilterReturn

Spec == Init /\ [][Next]_vars

\* method_call and its MethodReply future, polled while messages are dispatched.
NextFuture ==
    \/ MethodCall
    \/ Poll
    \/ DropMethodReply
    \/ CancelReply
    \/ ProcessOne
    \/ MrWake

SpecFuture == Init /\ [][NextFuture]_vars

\* Calls whose send may fail, next to calls that are outstanding.
NextSend ==
    \/ MethodCalls
    \/ Poll
    \/ ProcessOne
    \/ MrWake

SpecSend == Init /\ [][NextSend]_vars

\* The filter table: subscriptions, their removal and the cleanup queue.
NextFilters ==
    \/ Subscribe
    \/ StopReceive
    \/ ProcessOne
    \/ FilterReturn
    \/ MrWake

SpecFilters == Init /\ [][NextFilters]_vars

\* The cleanup queue: filters removed, and the cleanup hook run between
\* dispatches.
NextDrops ==
    \/ SubscribeFoo
    \/ StopReceives
    \/ Drops
    \/ ProcessReply
    \/ FilterReturn
    \/ MrWake

SpecDrops == Init /\ [][NextDrops]_vars

\* The method dispatcher of a server: calls resolved against the registry.
NextHandlers ==
    \/ CallMethodMut
    \/ DispatchRef

SpecHandlers == Init /\ [][NextHandlers]_vars

\* One SyncConnection shared by the reactor thread and the sending threads.
NextWaker ==
    \/ set_waker_lock
    \/ set_waker_store
    \/ set_waker_return
    \/ SendChannel
    \/ SendTryLock
    \/ SendTakeWake
    \/ SendReturn

SpecWaker == Init /\ [][NextWaker]_vars

\* The reactor polls the IOResource of a connection that has calls pending.
NextReactor ==
    \/ SendWithReply
    \/ PollReadWrite
    \/ ProcessAllNext
    \/ process_all_end
    \/ PollReadiness
    \/ ReplyReturn

SpecReactor == Init /\ [][NextReactor]_vars

\* The client of NetworkManager: the hotspot operations on the settings store.
NextHotspot ==
    \/ HotspotStart
    \/ DeactivateHotspots

SpecHotspot == Init /\ [][NextHotspot]_vars

\* The search for the WiFi device.
NextFind == FindWifiDevice

SpecFind == Init /\ [][NextFind]_vars

\* Threads that call send_with_reply on a SyncConnection while the dispatch
\* thread processes the replies that come in.
NextRace ==
    \/ SwrChannel
    \/ SwrInsert
    \/ SendTryLock
    \/ SendTakeWake
    \/ SendReturn
    \/ ProcessReply
    \/ ReplyReturn

SpecRace == Init /\ [][NextRace]_vars

\* Threads sharing a SyncConnection, one lock at a time.
NextLocks ==
    \/ LockCall
    \/ LockAcquire
    \/ LockPoisoned
    \/ LockRelock
    \/ LockRelease
    \/ CallbackReturn
    \/ CallbackCalls

SpecLocks == Init /\ [][NextLocks]_vars

\* ------------------------------------------------------------------ claims
ReplyCallbackStates == {"reply_cb", "mr_wake"}

\* C1: when two distinct serials are pending, process_one on a message whose
\* reply-serial is one of them invokes the callback sent under that serial and
\* no other, and leaves the other entry in the table, untouched and not
\* invoked, whichever of the two was sent first.
C1_ReplyMatchedBySerial ==
    [][\A msg \in Messages, ok \in BOOLEAN, s2 \in Serials :
          (/\ msg.rs \in DOMAIN replies
           /\ s2 \in DOMAIN replies
           /\ s2 # msg.rs
           /\ process_one(msg, ok))
          => /\ pc' \in ReplyCallbackStates
             /\ running'.serial = msg.rs
             /\ invoked'[msg.rs] = invoked[msg.rs] + 1
             /\ \A s \in Serials \ {msg.rs} : invoked'[s] = invoked[s]
             /\ s2 \in DOMAIN replies'
             /\ replies'[s2] = replies[s2]]_vars

\* The call sent second is answered first; the first is still pending.
C1_Witness ==
    /\ pc = "reply_cb"
    /\ reent = 0
    /\ running.serial = 2
    /\ invoked[2] = 1
    /\ 1 \in DOMAIN replies
    /\ invoked[1] = 0

\* C2: the callback of a send_with_reply is invoked at most once. The first
\* message with its reply-serial removes the entry and invokes it, and goes to
\* no filter and gets no default reply; a later message with the same
\* reply-serial invokes no reply callback.
C2_ReplyCallbackAtMostOnce ==
    [][/\ \A s \in Serials : invoked'[s] <= 1
       /\ \A msg \in Messages, ok \in BOOLEAN :
            (msg.rs # 0 /\ process_one(msg, ok))
            => IF msg.rs \in DOMAIN replies
               THEN /\ invoked[msg.rs] = 0
                    /\ invoked' = [invoked EXCEPT ![msg.rs] = 1]
                    /\ msg.rs \notin DOMAIN replies'
                    /\ pc' \in ReplyCallbackStates
                    /\ running'.kind # "filter"
                    /\ UNCHANGED <<filters, nextSerial>>
               ELSE /\ invoked' = invoked
                    /\ pc' \notin ReplyCallbackStates]_vars

\* A second message with the reply-serial of an answered call is being
\* handled (by a filter); the reply callback has run once.
C2_Witness ==
    /\ pc = "filter_cb"
    /\ running.rs # 0
    /\ invoked[running.rs] = 1

\* C3: while a reply callback or a filter callback runs inside process_one,
\* the connection holds neither table's borrow / lock, so that a callback
\* calling back into the connection neither panics nor deadlocks.
C3_NoTableHeldInCallback ==
    /\ pc \in {"reply_cb", "mr_wake", "filter_cb"} => held = {}
    /\ ~Crashed

\* C4: once cancel_reply(s) has removed the entry of s, a message arriving
\* with reply-serial s leaves the table without an entry for s, invokes no
\* callback at all, and process_one returns.
C4_CancelledReplyInvokesNothing ==
    [][\A msg \in Messages, ok \in BOOLEAN :
          (msg.rs \in cancelled /\ process_one(msg, ok))
          => /\ msg.rs \notin DOMAIN replies'
             /\ invoked' = invoked
             /\ pc' = "idle"]_vars

\* C5: a message with a reply-serial that has no pending entry is logged and
\* dropped: no filter is tried or called, nothing is sent, no table changes.
C5_UnmatchedReplyDropped ==
    [][\A msg \in Messages, ok \in BOOLEAN :
          (msg.rs # 0 /\ msg.rs \notin DOMAIN replies /\ process_one(msg, ok))
          => /\ pc' = "idle"
             /\ UNCHANGED <<replies, filters, nextSerial>>]_vars

\* C6: a cancel_reply(serial) that returns has removed the entry of that serial
\* and nothing else, and returns the callback sent under it without invoking
\* it; when there is no entry it returns none and changes nothing, as every
\* cancel_reply of an already cancelled serial does.
C6_CancelReplyRemovesOnce ==
    [][\A id \in Serials :
          (cancel_reply(id) /\ ~Crashed')
          => /\ last'.op = "cancel_reply" /\ last'.arg = id
             /\ last'.val = (IF id \in DOMAIN replies THEN id ELSE 0)
             /\ id \in cancelled => last'.val = 0
             /\ DOMAIN replies' = DOMAIN replies \ {id}
             /\ \A s \in DOMAIN replies' : replies'[s] = replies[s]
             /\ invoked' = invoked
             /\ pc' = pc]_vars

\* A cancel_reply of a serial that had been cancelled before returned none.
C6_Witness ==
    /\ last.op = "cancel_reply"
    /\ last.val = 0
    /\ last.arg \in cancelled

\* C7: a send_with_reply that returns has inserted an entry exactly when the
\* channel send succeeded, under the serial it returns, which was not in the
\* table; when the send failed it returns an error and the table is unchanged.
C7_InsertIffSent ==
    [][\A ok \in BOOLEAN :
          (send_with_reply(ok) /\ ~Crashed')
          => /\ last'.op = "send_with_reply"
             /\ (last'.val # 0) = ok
             /\ \A s \in DOMAIN replies : s \in DOMAIN replies' /\ replies'[s] = replies[s]
             /\ IF ok
                THEN /\ last'.val = nextSerial
                     /\ DOMAIN replies' = DOMAIN replies \cup {last'.val}
                     /\ last'.val \notin DOMAIN replies
                     /\ replies'[last'.val] = UserCb
                ELSE replies' = replies]_vars

\* A send failed while another call was pending: error, table as before.
C7_Witness ==
    /\ last.op = "send_with_reply"
    /\ last.val = 0
    /\ DOMAIN replies = {1}

ReadyResults == {"ReadyOk", "ReadyErr"}
Polls(m) == 1..Len(pollLog[m])
\* The method_call callback of m has stored its result but not yet woken.
Waking(m) == pc = "mr_wake" /\ running.m = m

\* C8: once a MethodReply has returned Ready from poll, every further poll of
\* it panics ("Polled MethodReply after Ready"): it returns neither Pending
\* nor Ready, and leaves no waker in the cell.
C8_PollAfterReadyPanics ==
    \A m \in MRs : \A i, j \in Polls(m) :
        (i < j /\ pollLog[m][i] \in ReadyResults)
        => /\ pollLog[m][j] = "Panic"
           /\ mr[m].st # "Pending"

\* C9: no wakeup of a MethodReply is lost or duplicated. A waker is woken at
\* most once, and only the one the cell held; and once the callback has made
\* the cell Ready and returned, a last poll that returned Pending has had its
\* waker woken exactly once.
C9_NoLostWakeup ==
    \A m \in MRs :
        /\ Len(wakeLog[m]) <= 1
        /\ \A k \in 1..Len(wakeLog[m]) :
              wakeLog[m][k] \in Polls(m) /\ pollLog[m][wakeLog[m][k]] = "Pending"
        /\ (/\ mr[m].st = "ReadyOk"
            /\ ~Waking(m)
            /\ pollLog[m] # << >>
            /\ pollLog[m][Len(pollLog[m])] = "Pending")
           => wakeLog[m] = <<Len(pollLog[m])>>

\* Two polls returned Pending, then the reply came: the second poll's waker,
\* and no other, was woken.
C9_Witness ==
    \E m \in MRs :
        /\ mr[m].st = "ReadyOk"
        /\ pollLog[m] = <<"Pending", "Pending">>
        /\ wakeLog[m] = <<2>>

\* C10: after cancel_reply has removed the entry of a method_call, its
\* MethodReply is never notified, whatever arrives: its waker is never woken
\* and every poll returns Pending. And dropping a MethodReply leaves its
\* entry in the table.
C10_CancelledFutureStaysPending ==
    \A m \in MRs :
        /\ mr[m].serial \in cancelled
           => /\ wakeLog[m] = << >>
              /\ mr[m].st \in {"Neither", "Pending"}
              /\ \A i \in Polls(m) : pollLog[m][i] = "Pending"
        /\ (/\ mr[m].st # "Unused" /\ ~mr[m].alive
            /\ mr[m].serial # 0
            /\ mr[m].serial \notin cancelled
            /\ invoked[mr[m].serial] = 0)
           => /\ mr[m].serial \in DOMAIN replies
              /\ replies[mr[m].serial] = MrCb(m)

\* The call was cancelled, the connection went on to handle an incoming
\* message (it sent a default reply, taking the next serial), and the
\* future, polled twice, is still pending.
C10_Witness ==
    \E m \in MRs :
        /\ mr[m].serial \in cancelled
        /\ pollLog[m] = <<"Pending", "Pending">>
        /\ nextSerial > mr[m].serial + 1

\* C11: on a fresh connection of either flavor the k-th start_receive returns
\* id k (1, 2, 3, ...), whatever stop_receive calls and self-removing filters
\* come in between; the ids of the registered filters are among those issued.
\* filter_nextid (Sync: filters.0) counts the start_receive calls made.
C11_StartReceiveIdsFromOne ==
    /\ last.op = "start_receive" => last.val = filter_nextid
    /\ \A id \in DOMAIN filters : id >= 1 /\ id <= filter_nextid

\* C12: stop_receive(id) on an id in the table removes that filter, leaves the
\* others, and returns the (rule, callback) pair stored under id; on an id
\* not in the table it returns none and leaves the table unchanged, so a
\* second stop_receive(id) returns none. A pair in the table is the one its
\* start_receive stored: an entry only enters the table by a start_receive
\* under a new id or by its own callback putting it back, and never changes.
C12_StopReceiveReturnsStored ==
    [][/\ \A id \in 0..MaxSubs, ok \in BOOLEAN :
            (stop_receive(id, ok) /\ ~Crashed')
            => /\ last'.op = "stop_receive" /\ last'.arg = id
               /\ IF id \in DOMAIN filters
                  THEN /\ last'.v = filters[id]
                       /\ id \notin DOMAIN filters'
                       /\ \A k \in DOMAIN filters \ {id} :
                              k \in DOMAIN filters' /\ filters'[k] = filters[k]
                  ELSE /\ last'.v = NoFilter
                       /\ filters' = filters
       /\ (last'.op = "stop_receive" /\ last'.v # NoFilter)
          => last'.arg \notin DOMAIN filters'
       /\ \A id \in DOMAIN filters' :
              \/ id \in DOMAIN filters /\ filters'[id] = filters[id]
              \/ pc = "filter_cb" /\ id = running.id /\ filters'[id] = running.v
              \/ /\ filter_nextid' = filter_nextid + 1
                 /\ last'.op = "start_receive" /\ last'.val = id
                 /\ filters'[id].f = filter_nextid']_vars

\* The second of two filters was removed by stop_receive, which returned its
\* rule and its callback; the first is still registered.
C12_Witness ==
    /\ last.op = "stop_receive"
    /\ last.v = [rule |-> [interface |-> "Foo"], f |-> 2]
    /\ \E k \in DOMAIN filters : filters[k].f = 1
    /\ pc = "idle"

\* C13: in either flavor, stop_receive(id) appends exactly one entry, with the
\* match string of the removed rule, to the cleanup queue when id was in the
\* table, and appends nothing and sends nothing when it was not.
C13_StopReceiveSchedulesCleanup ==
    [][\A id \in 0..MaxSubs, ok \in BOOLEAN :
          (stop_receive(id, ok) /\ ~Crashed')
          => IF id \in DOMAIN filters
             THEN /\ Len(dropq') = Len(dropq) + 1
                  /\ dropq'[Len(dropq')].match_str = match_str(filters[id].rule)
                  /\ \A i \in DOMAIN dropq : dropq'[i] = dropq[i]
             ELSE /\ dropq' = dropq
                  /\ nextSerial' = nextSerial]_vars

\* C14: a message that no pending reply consumes goes to at most one filter
\* callback: the matching filter with the smallest id, and to none when no
\* registered filter matches. The filters are those in the table at that
\* moment, so once the first of two matching filters has left the table the
\* message goes to the second.
C14_FirstMatchingFilterOnly ==
    [][\A msg \in Messages, ok \in BOOLEAN :
          (/\ pc = "idle"
           /\ msg.rs = 0 \/ msg.rs \notin DOMAIN replies
           /\ process_one(msg, ok))
          => LET ks == {k \in DOMAIN filters : matches(filters[k].rule, msg)} IN
             IF ks = {}
             THEN pc' = "idle" /\ filters' = filters
             ELSE /\ pc' = "filter_cb"
                  /\ running'.kind = "filter"
                  /\ running'.id \in ks
                  /\ \A k \in ks : running'.id <= k
                  /\ running'.v = filters[running'.id]
                  /\ \A k \in DOMAIN filters \ {running'.id} :
                         k \in DOMAIN filters' /\ filters'[k] = filters[k]]_vars

\* Two filters with the same rule are registered; the callback of the first
\* is running and the second is in the table, not invoked.
C14_Witness ==
    /\ pc = "filter_cb"
    /\ running.v.f = 1
    /\ \E k \in DOMAIN filters : filters[k].f = 2 /\ filters[k].rule = running.v.rule

\* C15: while its callback runs a filter is not in the table; when the
\* callback returns, the filter is in the table under its id with its rule
\* iff the callback returned true, and the other filters are as the callback
\* left them. A callback that process_one invokes is that of a filter in the
\* table, so a filter that left the table is not invoked again.
C15_FilterKeptIffTrue ==
    [][/\ pc' = "filter_cb" => running'.id \notin DOMAIN filters'
       /\ (pc = "idle" /\ pc' = "filter_cb")
          => running'.id \in DOMAIN filters /\ running'.v = filters[running'.id]
       /\ \A keep \in BOOLEAN :
            (pc = "filter_cb" /\ filter_return(keep))
            => /\ keep => /\ running.id \in DOMAIN filters'
                          /\ filters'[running.id] = running.v
               /\ ~keep => running.id \notin DOMAIN filters'
               /\ \A k \in DOMAIN filters :
                      k \in DOMAIN filters' /\ filters'[k] = filters[k]
               /\ DOMAIN filters' \subseteq DOMAIN filters \cup {running.id}]_vars

\* The first filter's callback returned false and the filter is gone; the
\* second filter is now the one invoked (no stop_receive has removed a filter).
C15_Witness ==
    /\ flavor = "Sync"
    /\ nMR = 0
    /\ pc = "filter_cb"
    /\ running.v.f = 2
    /\ filter_nextid = 2
    /\ filters = << >>

\* C16: process_one hands one default reply to the channel for a message that
\* expects a reply and matched neither a pending reply nor a filter: the
\* step that sends it can be taken, and on a channel that accepts it exactly
\* one message is sent. A message delivered to a reply callback or to a
\* filter, or one that expects no reply, makes process_one send nothing.
C16_DefaultReplyExactlyOnce ==
    [][\A msg \in Messages :
          LET consumed == msg.rs # 0 /\ msg.rs \in DOMAIN replies
              filtered == \E k \in DOMAIN filters : matches(filters[k].rule, msg)
              unhandled == ~consumed /\ ~filtered /\ msg.call
          IN /\ (pc = "idle" /\ unhandled /\ nextSerial <= MaxSerial)
                => ENABLED process_one(msg, TRUE)
             /\ \A ok \in BOOLEAN :
                  (pc = "idle" /\ process_one(msg, ok))
                  => IF unhandled
                     THEN /\ pc' = "idle"
                          /\ nextSerial' = IF ok THEN nextSerial + 1 ELSE nextSerial
                          /\ UNCHANGED <<replies, filters, invoked>>
                     ELSE /\ ~ok
                          /\ nextSerial' = nextSerial]_vars

\* A method call nobody handles was answered: a filter for "Foo" is
\* registered, nothing is pending, no call was made through the API, and the
\* channel has sent a message.
C16_Witness ==
    /\ pc = "idle"
    /\ nextSerial = 2
    /\ replies = << >>
    /\ \A s \in Serials : invoked[s] = 0
    /\ cancelled = {}
    /\ last.op = "start_receive"
    /\ \E k \in DOMAIN filters : filters[k].rule.interface = "Foo"

\* C17: a call that resolves to a RegistryExclusive (MutCr) handler and is
\* dispatched through the shared-only path (dispatch_ref, call_method_ref)
\* is deferred to the exclusive path: the handler runs exactly once, its
\* counter goes up by exactly 1, and nothing panics.
C17_ExclusiveHandlerDeferred ==
    [][\A c \in HCalls :
          (/\ pc = "idle"
           /\ c.iface \in DOMAIN Registry
           /\ c.member \in DOMAIN Registry[c.iface].methods
           /\ Shape(c) = "MutCr"
           /\ dispatch_ref(c))
          => /\ ~Crashed'
             /\ hres'.result = "Ok"
             /\ hcount' = [hcount EXCEPT ![<<c.iface, c.member>>] = @ + 1]]_vars

\* C18: call_method_mut on an interface that is not in the registry gives
\* NoSuchInterface, and on a registered interface with an unknown member
\* NoSuchMethod; no handler runs, the path tree is unchanged and nothing
\* panics; the call to a registered method that follows such an error is
\* dispatched normally: its handler runs once.
C18_UnknownInterfaceOrMethod ==
    [][\A c \in HCalls :
          (pc = "idle" /\ call_method_mut(c))
          => /\ c.iface \notin DOMAIN Registry
                => /\ hres'.result = "NoSuchInterface"
                   /\ UNCHANGED <<hcount, paths, pc>>
             /\ (/\ c.iface \in DOMAIN Registry
                 /\ c.member \notin DOMAIN Registry[c.iface].methods)
                => /\ hres'.result = "NoSuchMethod"
                   /\ UNCHANGED <<hcount, paths, pc>>
             /\ (/\ hres.result \in {"NoSuchInterface", "NoSuchMethod"}
                 /\ c = [iface |-> "Foo", member |-> "byPath", path |-> "/a"])
                => /\ hres'.result = "Ok"
                   /\ hcount' = [hcount EXCEPT ![<<"Foo", "byPath">>] = @ + 1]
                   /\ UNCHANGED <<paths, pc>>]_vars

\* A call to an interface that is not registered was refused, and the call
\* after it, to a registered method, ran its handler.
C18_Witness ==
    /\ hres.via = "call_method_mut"
    /\ hres.prev = "NoSuchInterface"
    /\ hres.result = "Ok"
    /\ hres.call = [iface |-> "Foo", member |-> "byPath", path |-> "/a"]
    /\ hcount[<<"Foo", "byPath">>] = 1

\* C19: nothing makes the dispatch loop or its cleanup hook panic:
\* process_one, process_all and drops return normally in both flavors.
C19_DispatchNeverPanics ==
    pc \notin {"panicked", "deadlocked"}

\* C20: for a method_call sent under serial s, once the message with
\* reply-serial s has been processed the table has no entry s and the
\* MethodReply resolves exactly once: the result is either still in the cell
\* or was returned by exactly one poll, every poll before that one returned
\* Pending, and no poll returns Ready before the reply was processed.
C20_MethodCallResolvesOnce ==
    \A m \in MRs :
        (mr[m].st # "Unused" /\ mr[m].owner = "user" /\ mr[m].serial # 0)
        => LET s == mr[m].serial
               readies == {i \in Polls(m) : pollLog[m][i] \in ReadyResults}
           IN /\ Cardinality(readies) <= 1
              /\ \A i \in readies : \A j \in 1..(i - 1) : pollLog[m][j] = "Pending"
              /\ \A i \in Polls(m) : pollLog[m][i] # "Panic"
              /\ readies # {} => invoked[s] = 1
              /\ invoked[s] = 1
                 => /\ s \notin DOMAIN replies
                    /\ (IsReady(mr[m]) /\ readies = {}) \/ (~IsReady(mr[m]) /\ readies # {})
              /\ invoked[s] <= 1

\* Polled once before the reply and once after: Pending, then Ready.
C20_Witness ==
    \E m \in MRs :
        /\ mr[m].serial # 0
        /\ pollLog[m] = <<"Pending", "ReadyOk">>
        /\ mr[m].serial \notin DOMAIN replies

\* C21: a method_call whose send fails returns a MethodReply that is already
\* Ready with the 'Failed to send message' error: it creates no pending-reply
\* entry, leaves every other outstanding call and its future as they were,
\* and the first poll of the returned future returns Ready(Err), not Pending.
C21_FailedSendIsReadyErr ==
    [][/\ (nMR < MaxFutures /\ method_call(FALSE))
          => /\ mr'[nMR'].st = "ReadyErr"
             /\ mr'[nMR'].serial = 0
             /\ UNCHANGED <<replies, invoked, cancelled, pollLog, wakeLog, nextSerial>>
             /\ \A m \in MRs \ {nMR'} : mr'[m] = mr[m]
       /\ \A m \in MRs :
             (m <= nMR /\ mr[m].owner = "user" /\ mr[m].serial = 0)
             => /\ \A s \in DOMAIN replies' : replies'[s] # MrCb(m)
                /\ pollLog'[m] # <<>> => pollLog'[m][1] = "ReadyErr"]_vars

\* A call whose send failed was polled and returned the error at once, while
\* an earlier call is still waiting for its reply.
C21_Witness ==
    /\ nMR = 2
    /\ mr[1].serial \in DOMAIN replies /\ replies[mr[1].serial] = MrCb(1)
    /\ pollLog[1] = <<"Pending">>
    /\ mr[2].serial = 0
    /\ pollLog[2] = <<"ReadyErr">>

\* The call resolves: its interface, its method and, where the handler's shape
\* asks for them, its path and a matching instance under that path exist.
Resolves(tree, c) ==
    /\ c.iface \in DOMAIN Registry
    /\ c.member \in DOMAIN Registry[c.iface].methods
    /\ Shape(c) \in {"MutPath", "MutIface"} => c.path \in DOMAIN tree
    /\ Shape(c) = "MutIface" => Registry[c.iface].typeid \in tree[c.path]

\* C22: one call_method_mut runs at most one handler body: the addressed
\* handler exactly once when the call resolves, none when resolution fails.
\* An AllRef handler reached through call_method_mut runs once, in the deferred
\* dispatch_ref, and not also inside the match.
C22_OneHandlerPerCall ==
    [][\A c \in HCalls :
          call_method_mut(c)
          => IF Resolves(paths, c)
             THEN /\ hcount' = [hcount EXCEPT ![<<c.iface, c.member>>] = @ + 1]
                  /\ hres'.result = "Ok"
             ELSE /\ hcount' = hcount
                  /\ hres'.result # "Ok"]_vars

\* An AllRef handler was reached through call_method_mut and ran once.
C22_Witness ==
    /\ hres.via = "call_method_mut"
    /\ hres.call = [iface |-> "Foo", member |-> "byRef", path |-> "/a"]
    /\ hres.result = "Ok"
    /\ hcount[<<"Foo", "byRef">>] = 1
    /\ Total(hcount) = 1

\* C23: call_method_mut reports the first lookup that fails: the interface
\* before the method, the method before the path; a MutPath or MutIface
\* handler on a missing path gives NoSuchPath; a MutIface handler on a path
\* without an instance of the interface's type gives NoSuchInterface, and the
\* handler is not invoked.
C23_ErrorPrecedence ==
    [][\A c \in HCalls :
          call_method_mut(c)
          => IF c.iface \notin DOMAIN Registry
             THEN hres'.result = "NoSuchInterface" /\ hcount' = hcount
             ELSE IF c.member \notin DOMAIN Registry[c.iface].methods
             THEN hres'.result = "NoSuchMethod" /\ hcount' = hcount
             ELSE /\ (Shape(c) \in {"MutPath", "MutIface"} /\ c.path \notin DOMAIN paths)
                     => hres'.result = "NoSuchPath" /\ hcount' = hcount
                  /\ (/\ Shape(c) = "MutIface"
                      /\ c.path \in DOMAIN paths
                      /\ Registry[c.iface].typeid \notin paths[c.path])
                     => hres'.result = "NoSuchInterface" /\ hcount' = hcount]_vars

\* A call with an unknown method on a missing path was refused for its
\* method, after a MutIface call on a path without the instance was refused.
C23_Witness ==
    /\ hres.via = "call_method_mut"
    /\ hres.call = [iface |-> "Foo", member |-> "nope", path |-> "/b"]
    /\ "/b" \notin DOMAIN paths
    /\ hres.result = "NoSuchMethod"
    /\ hres.prev = "NoSuchInterface"
    /\ Total(hcount) = 0

\* C24: one call of SyncConnection::drops polls every queued entry exactly
\* once and polls nothing else; it leaves in the queue exactly the entries
\* whose poll returned Pending, in their order; no entry is lost or doubled,
\* and an entry that left the queue never comes back.
C24_DropsKeepsPending ==
    [][/\ (Drops /\ flavor = "Sync")
          => /\ \A m \in MRs :
                   pollLog'[m] = IF m \in Queued(dropq)
                                 THEN Append(pollLog[m], pollLog'[m][Len(pollLog'[m])])
                                 ELSE pollLog[m]
             /\ dropq' = SelectSeq(dropq,
                            LAMBDA e : pollLog'[e.fut][Len(pollLog'[e.fut])] = "Pending")
       /\ \A i, j \in DOMAIN dropq' : dropq'[i].fut = dropq'[j].fut => i = j
       /\ \A m \in Queued(dropq') : m \in Queued(dropq) \/ m > nMR]_vars

\* Two removals are queued; the reply to the first has come and drops has
\* removed it, keeping the second, whose poll returned Pending.
C24_Witness ==
    /\ flavor = "Sync"
    /\ nMR = 2
    /\ Queued(dropq) = {2}
    /\ pollLog[1] # <<>> /\ pollLog[1][Len(pollLog[1])] \in ReadyResults
    /\ pollLog[2] # <<>> /\ pollLog[2][Len(pollLog[2])] = "Pending"

\* C25: on a SyncConnection, under every interleaving with set_waker and
\* with other sends, a send or send_with_reply that queued its message does
\* not leave un-woken in the slot a waker that set_waker had installed before
\* the send returned: once no call is in progress, no such waker is in the slot.
C25_SendWakesInstalledWaker ==
    (\A t \in Threads : thread[t].pc = "idle") => waker_slot \notin owed

\* C26: process_all, run by one caller on a finite inbound queue, terminates:
\* it is not cut short by a panic and does not hang inside process_one; when
\* it returns the inbound queue is empty and every message it found queued
\* has been passed to process_one exactly once, in arrival order.
C26_ProcessAllDrainsInOrder ==
    /\ iopc = "process_all" => ~Crashed
    /\ iopc = "readiness" => inq = << >> /\ passed = arrived

ReadinessOps == {"take_read_ready", "take_write_ready", "poll_read_ready", "poll_write_ready"}

\* C27: a poll of the IOResource that returned did read_write, then
\* process_all, then watch and the readiness calls, and returned Pending when
\* all of them succeeded; it returned Ready only when its last step failed,
\* that step being read_write or a readiness call; after a failed read_write
\* nothing else, process_all included, was run.
C27_PollPendingUnlessIoFails ==
    (iopc = "idle" /\ iolog # << >>)
    => LET n == Len(iolog)
           failed == {i \in 1..n : ~iolog[i].ok}
           rest == [i \in 1..(n - 3) |-> iolog[i + 3].op]
       IN /\ ioret \in {"Pending", "Ready"}
          /\ ioret = "Pending" <=> failed = {}
          /\ ioret = "Ready" => failed = {n} /\ iolog[n].op \in {"read_write"} \cup ReadinessOps
          /\ iolog[1].op = "read_write"
          /\ ~iolog[1].ok => n = 1
          /\ iolog[1].ok
             => /\ n >= 4
                /\ iolog[2].op = "process_all" /\ iolog[3].op = "watch"
                /\ \E w \in Watches, k \in 1..4 :
                      /\ k <= Len(readiness_ops(w))
                      /\ rest = SubSeq(readiness_ops(w), 1, k)
                      /\ ioret = "Pending" => k = Len(readiness_ops(w))

\* A poll went through every step, both directions re-armed, and returned
\* Pending.
C27_Witness ==
    /\ iopc = "idle"
    /\ ioret = "Pending"
    /\ Len(iolog) = 7
    /\ iolog[6].op = "poll_read_ready" /\ iolog[7].op = "poll_write_ready"

Called(c) == {i \in DOMAIN nm.calls : nm.calls[i].call = c}
WaitCall == "wait_for_active_connection_state"

\* C28: hotspot_start returns Ok exactly when the removal of the existing
\* hotspot, the add, the in-memory update, the activation and the read of the
\* state all succeeded and the state after the wait is Activated; with any
\* other state after the wait it returns hotspot_failed; the volatile update
\* is made only after Activated was observed, and its failure leaves the
\* result Ok.
C28_HotspotStartResult ==
    nm.op = "hotspot_start"
    => LET c == nm.calls
           n == Len(c)
           before == <<"make_arguments_for_sta", "add_connection", "update2_in_memory",
                       "activate_connection", "state">>
           waited == Called(WaitCall)
           activated == {i \in waited : c[i].res = "Activated"}
       IN /\ nm.result \in {"Ok", "Err", "hotspot_failed"}
          /\ nm.result = "Ok"
             <=> /\ activated # {}
                 /\ \A i \in DOMAIN before :
                       \E j \in Called(before[i]) : c[j].res = "Ok" /\ j < SetMin(waited)
                 /\ \A j \in DOMAIN c :
                       (j < SetMin(waited) /\ c[j].res = "Err")
                       => c[j].call = "get_connection_by_uuid"
          /\ (\E i \in waited : c[i].res \in ConnectionStates \ {"Activated"})
             => nm.result = "hotspot_failed"
          /\ nm.result = "hotspot_failed" => waited # {} /\ activated = {}
          /\ \A i \in Called("update2_volatile") :
                i = n /\ i - 1 \in activated /\ nm.result = "Ok"

\* A hotspot was started over an existing one: the old connection was deleted,
\* the state after the wait was Activated, the volatile update failed, and the
\* result is Ok.
C28_Witness ==
    /\ nm.op = "hotspot_start"
    /\ nm.result = "Ok"
    /\ nm.calls[1] = R("get_connection_by_uuid", "Ok")
    /\ nm.calls[2] = R("delete", "Ok")
    /\ nm.calls[Len(nm.calls)] = R("update2_volatile", "Err")
    /\ Cardinality(store) = 1

FailedCalls == {i \in DOMAIN found.calls : ~found.calls[i].ok}
WifiDevices == {i \in DOMAIN found.devices : found.devices[i]}

\* C29: when every bus call succeeds find_wifi_device returns the device on
\* the preferred interface if that device is WiFi, otherwise the first WiFi
\* device in the order of get_all_devices, and no_wifi_device iff no listed
\* device is WiFi; when a bus call fails, the lookup of the preferred
\* interface included, it returns that error, makes no further call and does
\* not fall back to the scan.
C29_FindWifiDevice ==
    found.res # "none"
    => IF FailedCalls = {}
       THEN /\ found.res \in {"Ok", "no_wifi_device"}
            /\ found.res = "no_wifi_device" <=> WifiDevices = {}
            /\ found.res = "Ok"
               => IF found.preferred \in WifiDevices
                  THEN found.device = found.preferred
                  ELSE /\ found.device \in WifiDevices
                       /\ \A i \in WifiDevices : found.device <= i
       ELSE /\ found.res = "Err"
            /\ FailedCalls = {Len(found.calls)}
            /\ (found.preferred # 0 /\ ~found.calls[1].ok)
               => /\ found.calls[1].call = "get_device_by_ip_iface"
                  /\ \A i \in DOMAIN found.calls : found.calls[i].call # "get_all_devices"

\* The preferred interface is not a WiFi device, two WiFi devices are listed
\* after it, and the first of them is returned.
C29_Witness ==
    /\ found.res = "Ok"
    /\ found.preferred = 1
    /\ found.devices = <<FALSE, TRUE, TRUE>>
    /\ found.device = 2

\* C30: after any sequence of hotspot_start and deactivate_hotspots calls,
\* each run to completion, the settings store holds at most one connection
\* with HOTSPOT_UUID.
C30_AtMostOneHotspot == Cardinality(store) <= 1

\* C33: a filter cannot unsubscribe itself from inside its callback: the
\* entry is out of the table while the callback runs, so stop_receive on its
\* own id returns None, removes nothing and queues no cleanup; whether the
\* filter is registered after the callback is decided by the callback's return
\* value alone, and putting it back under its id overwrites no other filter.
C33_NoSelfUnsubscribe ==
    [][/\ pc' = "filter_cb" => running'.id \notin DOMAIN filters'
       /\ \A ok \in BOOLEAN :
             (pc = "filter_cb" /\ stop_receive(running.id, ok))
             => /\ last'.op = "stop_receive" /\ last'.arg = running.id
                /\ last'.v = NoFilter
                /\ pc' = "filter_cb"
                /\ UNCHANGED <<filters, dropq, nMR, replies, nextSerial>>
       /\ \A keep \in BOOLEAN :
             filter_return(keep)
             => /\ running.id \notin DOMAIN filters
                /\ running.id \in DOMAIN filters' <=> keep
                /\ keep => filters'[running.id] = running.v
                /\ DOMAIN filters' \ {running.id} = DOMAIN filters
                /\ \A k \in DOMAIN filters : filters'[k] = filters[k]]_vars

\* A filter's callback called stop_receive on its own id, got None, and
\* returned true: the filter is registered and nothing is queued for cleanup.
C33_Witness ==
    /\ pc = "idle"
    /\ reent = 1
    /\ last.op = "stop_receive"
    /\ last.v = NoFilter
    /\ last.arg \in DOMAIN filters
    /\ dropq = << >>

\* The serials of the messages a send_with_reply in progress has handed to
\* the channel.
Handed == {thread[t].r : t \in {u \in Senders : thread[u].pc = "handed"}} \ {0}

\* C31: on a SyncConnection, with one thread in send_with_reply and another
\* dispatching, the reply to the message being sent is never classified as
\* unmatched: in no state that the dispatch thread can process a message in
\* is a message in the channel while its entry is not in the pending-reply
\* table.
C31_NoReplyBeforeEntry ==
    pc = "idle" => Handed \subseteq DOMAIN replies

\* The mutex thread t is about to lock, if it is at a lock().
WaitsFor(t) == IF Busy(t) /\ Instr(t).k = "acq" THEN {Instr(t).l} ELSE {}
\* t waits for a mutex u holds.
WaitsOn(t, u) == \E l \in WaitsFor(t) : lock_owner[l] = u
NoSelfWait == \A t \in Threads : lthread[t].st # "deadlocked"
NoWaitCycle == \A t, u \in Threads : t # u => ~(WaitsOn(t, u) /\ WaitsOn(u, t))
\* C32: SyncConnection is deadlock-free across threads: whatever way
\* stop_receive, drops, start_receive, send_with_reply and process_one with
\* callbacks that call start_receive or stop_receive interleave, no thread
\* waits for a mutex it holds itself, and no two threads wait each for a
\* mutex the other holds.
C32_DeadlockFree ==
    NoSelfWait /\ NoWaitCycle
====
